---- MODULE Spec2Model ----
(***************************************************************************)
(* Coordination plane of codebridge-mcp: the master's worker registry      *)
(* (src/coordination/master.ts), the LeaderElection object                 *)
(* (src/coordination/election.ts) and the workers' failover path           *)
(* (src/coordination/worker.ts).                                           *)
(*                                                                         *)
(* The state machines of this module:                                     *)
(*   Spec              the registry of one master under register,          *)
(*                     deregister, heartbeat and reaper requests;          *)
(*   SpecRegistration  the registration route fed with arbitrary bodies;   *)
(*   SpecRouter        the master's tool router over a changing registry;  *)
(*   SpecFrame         registry requests interleaved with routed calls;    *)
(*   SpecAggregate     aggregated tool calls over a changing registry;     *)
(*   SpecLink          the workers' heartbeat loop against the master;     *)
(*   SpecStartup       extension hosts running startMcpServer: role        *)
(*                     detection, coordinator start, registration, listen; *)
(*   SpecElection      one LeaderElection object under concurrent          *)
(*                     startElection / abortElection calls;                *)
(*   SpecFailover      several workers watching one master that may        *)
(*                     degrade and be killed;                              *)
(*   SpecHistory       tool calls that overlap in time, on a master that   *)
(*                     has a short or a nearly full call history;          *)
(*   SpecExecutor      one remote tool execution, request by request;      *)
(*   SpecShutdownFair  a master that is stopped, with workers that answer  *)
(*                     the shutdown notification, refuse it or are silent; *)
(*   SpecDetector      one detectMode of an auto-detecting process, probe  *)
(*                     by probe;                                           *)
(*   SpecWatch         the same workers with the failure counter counted   *)
(*                     as the code counts it, and a master that announces  *)
(*                     its shutdown;                                       *)
(*   SpecJoin          one worker registering with a master that stays     *)
(*                     healthy and may refuse every registration;          *)
(*   SpecRole          one worker, its elections, waits and registrations  *)
(*                     and the role transitions they request;              *)
(*   SpecPoll          the live workers each running one election after    *)
(*                     the master has failed;                              *)
(*   SpecPort          workers starting at the same time on one host,      *)
(*                     each probing for a port and binding it;             *)
(*   SpecBackground    the same workers with a master whose answers can    *)
(*                     be in time again, and the promises left unhandled.  *)
(***************************************************************************)
EXTENDS Integers, Sequences, FiniteSets, TLC

(***************************************************************************)
(* Bounds of the model.                                                    *)
(***************************************************************************)
MaxInstances == 2
MaxTicks == 2

(***************************************************************************)
(* Program constants.                                                      *)
(***************************************************************************)
heartbeatInterval == 5000

\* The clock is observed every two heartbeat intervals, so that two ticks
\* carry a record past the reaper's threshold of three intervals.
ClockStep == 2 * heartbeatInterval

InstanceIds == 1..MaxInstances
Paths == {"/a", "/a/b"}
Statuses == {"active", "idle"}
Timestamps == {k * ClockStep : k \in 0..MaxTicks}

(***************************************************************************)
(* JavaScript Map helpers: a Map is a function on its key set.             *)
(***************************************************************************)
MapSet(m, k, v) == [x \in (DOMAIN m) \cup {k} |-> IF x = k THEN v ELSE m[x]]
MapDelete(m, k) == [x \in (DOMAIN m) \ {k} |-> m[x]]
MapValues(m) == {m[x] : x \in DOMAIN m}
EmptyMap == [x \in {} |-> 0]

\* Iteration order of a Map: set() on a new key appends it, set() on a key
\* of the Map keeps its place, delete() removes it.
OrderSet(order, k) ==
  IF \E i \in 1..Len(order) : order[i] = k THEN order ELSE Append(order, k)
OrderDelete(order, keys) == SelectSeq(order, LAMBDA k : k \notin keys)

VARIABLES
  registeredWorkers,   \* MasterState.registeredWorkers: instanceId -> WorkerInfo
  workerOrder,         \* the keys of registeredWorkers in the Map's iteration order
  workspaceRouting,    \* MasterState.workspaceRouting: workspacePath -> instanceId
  now,                 \* the master's Date.now()
  lastOp,              \* the last request served by the master and its reply
  roundTrip            \* registry as it was before the last fresh registration

registryVars == <<registeredWorkers, workerOrder, workspaceRouting, now, lastOp,
                  roundTrip>>

VARIABLES
  quorumSize,          \* failoverConfig.quorumSize, 0 meaning majority
  electionInProgress,  \* this.electionInProgress
  candidates,          \* this.candidates: a Map in insertion order, a sequence of entries
  electionTimeout,     \* this.electionTimeout: the run whose timer handle it holds, 0 for null
  timers,              \* runs whose createElectionTimeout timer is still pending
  run,                 \* the startElection calls made on the object
  sent,                \* MASTER_ELECTED messages handed to the network
  elected              \* result of calculateElectionWinner on a drawn candidate map

electionVars == <<quorumSize, electionInProgress, candidates, electionTimeout,
                  timers, run, sent, elected>>

VARIABLES
  master,              \* the master process: "healthy", "degraded" (slow) or "dead"
  masterFailureCount,  \* WorkerCoordinator.masterFailureCount, per worker
  becomingMaster,      \* WorkerCoordinator.becomingMaster, per worker
  masterHealthTimer,   \* whether the worker's masterHealthTimer is set
  workerRunning,       \* whether the worker's local server listens and workerInfo is set
  electing,            \* electionInProgress of the worker's LeaderElection
  mode,                \* McpCoordinator.mode, per worker
  attempt,             \* the worker's pending initiateElection / waitForNewMaster calls
  becameMaster,        \* the path by which the worker completed becomeMaster, "no" before
  promotedAtKill       \* the workers that had completed becomeMaster when the master was killed

failoverVars == <<master, masterFailureCount, becomingMaster, masterHealthTimer,
                  workerRunning, electing, mode, attempt, becameMaster,
                  promotedAtKill>>

VARIABLES
  lastCall,            \* the last handleToolCall of the master: its input, route and outcome
  toolCallHistory,     \* MasterState.toolCallHistory
  lastAggregate        \* the last aggregateFromAllWorkers: its branches and outcome

routerVars == <<lastCall, toolCallHistory, lastAggregate>>

VARIABLES
  heartbeatTimer,      \* whether the worker process runs with its heartbeatTimer set
  pending              \* the worker's request to the master that is in flight

linkVars == <<heartbeatTimer, pending>>

VARIABLES
  proc                 \* the extension hosts started with startMcpServer: their coordinator and servers

startVars == <<proc>>

VARIABLES
  unhandled,           \* the workers in which a promise was rejected with no handler
  recoveries           \* how often the master has answered in time again after being slow

backgroundVars == <<unhandled, recoveries>>

VARIABLES
  running,             \* the handleToolCall invocations that await routeToolCall
  callsStarted         \* how many handleToolCall invocations have begun

callVars == <<running, callsStarted>>

VARIABLES
  exec                 \* one RemoteToolExecutor.executeTool: its position, requests and sleeps

executorVars == <<exec>>

VARIABLES
  shutdown             \* MasterCoordinator.stop(): its position, notifications and servers

shutdownVars == <<shutdown>>

VARIABLES
  detector             \* one CoordinationDetector.detectMode: its probes, waits and answer

detectorVars == <<detector>>

VARIABLES
  lastProbe,           \* flips with every master-health probe that completes
  shutdownTimer        \* per worker: the 2 s timer of handleMasterShutdown is pending

watchVars == <<lastProbe, shutdownTimer>>

VARIABLES
  joiner               \* one worker registering with a master that stays healthy

joinVars == <<joiner>>

VARIABLES
  role                 \* one worker and the role transitions requested of it

roleVars == <<role>>

VARIABLES
  poll                 \* live workers electing after a master failure, winner by winner

pollVars == <<poll>>

VARIABLES
  starter              \* workers starting on one host, port probe by port probe

portVars == <<starter>>

OnlyRegistry ==
  UNCHANGED <<electionVars, failoverVars, routerVars, linkVars, startVars,
              backgroundVars, callVars, executorVars, shutdownVars, detectorVars,
              watchVars, joinVars, roleVars, pollVars, portVars>>
OnlyElection ==
  UNCHANGED <<registryVars, failoverVars, routerVars, linkVars, startVars,
              backgroundVars, callVars, executorVars, shutdownVars, detectorVars,
              watchVars, joinVars, roleVars, pollVars, portVars>>
OnlyFailover ==
  UNCHANGED <<electionVars, routerVars, linkVars, startVars, backgroundVars, callVars,
              executorVars, shutdownVars, detectorVars, watchVars, joinVars, roleVars,
              pollVars, portVars>>
OnlyRouter ==
  UNCHANGED <<electionVars, failoverVars, linkVars, startVars, backgroundVars,
              callVars, executorVars, shutdownVars, detectorVars, watchVars, joinVars,
              roleVars, pollVars, portVars>>
OnlyLink ==
  UNCHANGED <<electionVars, failoverVars, routerVars, startVars, backgroundVars,
              callVars, executorVars, shutdownVars, detectorVars, watchVars, joinVars,
              roleVars, pollVars, portVars>>
OnlyStart ==
  UNCHANGED <<electionVars, failoverVars, routerVars, linkVars, backgroundVars,
              callVars, executorVars, shutdownVars, detectorVars, watchVars, joinVars,
              roleVars, pollVars, portVars>>
OnlyBackground ==
  UNCHANGED <<electionVars, routerVars, linkVars, startVars, callVars, executorVars,
              shutdownVars, detectorVars, watchVars, joinVars, roleVars, pollVars,
              portVars>>
OnlyCalls ==
  UNCHANGED <<registryVars, electionVars, failoverVars, linkVars, startVars,
              backgroundVars, executorVars, shutdownVars, detectorVars, watchVars,
              joinVars, roleVars, pollVars, portVars>>
OnlyExecutor ==
  UNCHANGED <<registryVars, electionVars, failoverVars, routerVars, linkVars,
              startVars, backgroundVars, callVars, shutdownVars, detectorVars,
              watchVars, joinVars, roleVars, pollVars, portVars>>
OnlyShutdown ==
  UNCHANGED <<electionVars, failoverVars, routerVars, linkVars, startVars,
              backgroundVars, callVars, executorVars, detectorVars, watchVars,
              joinVars, roleVars, pollVars, portVars>>
OnlyDetector ==
  UNCHANGED <<registryVars, electionVars, failoverVars, routerVars, linkVars,
              startVars, backgroundVars, callVars, executorVars, shutdownVars,
              watchVars, joinVars, roleVars, pollVars, portVars>>
OnlyWatch ==
  UNCHANGED <<electionVars, routerVars, linkVars, startVars, backgroundVars, callVars,
              executorVars, shutdownVars, detectorVars, joinVars, roleVars, pollVars,
              portVars>>
OnlyJoin ==
  UNCHANGED <<registryVars, electionVars, failoverVars, routerVars, linkVars,
              startVars, backgroundVars, callVars, executorVars, shutdownVars,
              detectorVars, watchVars, roleVars, pollVars, portVars>>
OnlyRole ==
  UNCHANGED <<registryVars, electionVars, failoverVars, routerVars, linkVars,
              startVars, backgroundVars, callVars, executorVars, shutdownVars,
              detectorVars, watchVars, joinVars, pollVars, portVars>>
OnlyPoll ==
  UNCHANGED <<registryVars, electionVars, failoverVars, routerVars, linkVars,
              startVars, backgroundVars, callVars, executorVars, shutdownVars,
              detectorVars, watchVars, joinVars, roleVars, portVars>>
OnlyPort ==
  UNCHANGED <<registryVars, electionVars, failoverVars, routerVars, linkVars,
              startVars, backgroundVars, callVars, executorVars, shutdownVars,
              detectorVars, watchVars, joinVars, roleVars, pollVars>>

(***************************************************************************)
(* master.ts: workspace routing index.                                     *)
(***************************************************************************)
updateWorkspaceRouting(routing, worker) ==
  MapSet(routing, worker.workspacePath, worker.instanceId)

cleanupWorkspaceRouting_skip(routing, instanceId) == routing

cleanupWorkspaceRouting(routing, instanceId) ==
  [p \in {q \in DOMAIN routing : routing[q] # instanceId} |-> routing[p]]

(***************************************************************************)
(* master.ts: registerWorker builds a fresh WorkerInfo stamped with the    *)
(* master's clock and stores it under request.instanceId.  Of WorkerInfo   *)
(* the model keeps the fields the registry and the router read.  A field   *)
(* the request lacks reads as undefined.                                   *)
(***************************************************************************)
Undefined == -2

NewWorkerInfo(request, t) ==
  [instanceId |-> request.instanceId,
   workspacePath |-> request.workspacePath,
   port |-> IF "port" \in DOMAIN request THEN request.port ELSE Undefined,
   lastSeen |-> t,
   status |-> "active"]

NoRoundTrip == [phase |-> "none", id |-> 0,
                workers |-> EmptyMap, routing |-> EmptyMap]

registerWorker_evictsPathOwner(request) ==
  LET workerInfo == NewWorkerInfo(request, now)
      kept == {id \in DOMAIN registeredWorkers :
                 registeredWorkers[id].workspacePath # request.workspacePath}
  IN /\ registeredWorkers' =
          MapSet([id \in kept |-> registeredWorkers[id]], request.instanceId, workerInfo)
     /\ workerOrder' =
          OrderSet(OrderDelete(workerOrder, (DOMAIN registeredWorkers) \ kept),
                   request.instanceId)
     /\ workspaceRouting' = updateWorkspaceRouting(workspaceRouting, workerInfo)
     /\ lastOp' = [op |-> "register", id |-> request.instanceId, success |-> TRUE]
     /\ roundTrip' = NoRoundTrip
     /\ UNCHANGED now

registerWorker(request) ==
  LET workerInfo == NewWorkerInfo(request, now)
  IN /\ registeredWorkers' = MapSet(registeredWorkers, request.instanceId, workerInfo)
     /\ workerOrder' = OrderSet(workerOrder, request.instanceId)
     /\ workspaceRouting' = updateWorkspaceRouting(workspaceRouting, workerInfo)
     /\ lastOp' = [op |-> "register", id |-> request.instanceId, success |-> TRUE]
     /\ roundTrip' = IF request.instanceId \in DOMAIN registeredWorkers
                     THEN NoRoundTrip
                     ELSE [phase |-> "registered", id |-> request.instanceId,
                           workers |-> registeredWorkers,
                           routing |-> workspaceRouting]
     /\ UNCHANGED now

(***************************************************************************)
(* master.ts: deregisterWorker, on the registry and routing passed in.     *)
(***************************************************************************)
DeregisteredWorkers(workers, instanceId) ==
  IF instanceId \in DOMAIN workers THEN MapDelete(workers, instanceId) ELSE workers

DeregisteredRouting(workers, routing, instanceId) ==
  IF instanceId \in DOMAIN workers
  THEN cleanupWorkspaceRouting(routing, instanceId)
  ELSE routing

deregisterWorker(instanceId) ==
  /\ registeredWorkers' = DeregisteredWorkers(registeredWorkers, instanceId)
  /\ workerOrder' = OrderDelete(workerOrder, {instanceId})
  /\ workspaceRouting' =
       DeregisteredRouting(registeredWorkers, workspaceRouting, instanceId)
  /\ lastOp' = [op |-> "deregister", id |-> instanceId, success |-> TRUE]
  /\ roundTrip' = IF roundTrip.phase = "registered" /\ roundTrip.id = instanceId
                  THEN [roundTrip EXCEPT !.phase = "done"]
                  ELSE NoRoundTrip
  /\ UNCHANGED now

(***************************************************************************)
(* master.ts: handleHeartbeat.                                             *)
(***************************************************************************)
handleHeartbeat(instanceId, request) ==
  /\ IF instanceId \notin DOMAIN registeredWorkers
     THEN /\ UNCHANGED registeredWorkers
          /\ lastOp' = [op |-> "heartbeat", id |-> instanceId, success |-> FALSE]
     ELSE /\ registeredWorkers' =
               [registeredWorkers EXCEPT ![instanceId].lastSeen = request.timestamp,
                                         ![instanceId].status = request.status]
          /\ lastOp' = [op |-> "heartbeat", id |-> instanceId, success |-> TRUE]
  /\ roundTrip' = NoRoundTrip
  /\ UNCHANGED <<workerOrder, workspaceRouting, now>>

(***************************************************************************)
(* master.ts: checkWorkerHeartbeats deregisters every worker whose         *)
(* lastSeen is more than three heartbeat intervals old.                    *)
(***************************************************************************)
Expired_oneInterval(workers, t) ==
  {id \in DOMAIN workers : t - workers[id].lastSeen > heartbeatInterval}

Expired_never(workers, t) == {}

Expired(workers, t) ==
  {id \in DOMAIN workers : t - workers[id].lastSeen > heartbeatInterval * 3}

RECURSIVE ReapAll(_, _, _)
ReapAll(workers, routing, ids) ==
  IF ids = {} THEN <<workers, routing>>
  ELSE LET id == CHOOSE x \in ids : TRUE
       IN ReapAll(DeregisteredWorkers(workers, id),
                  DeregisteredRouting(workers, routing, id),
                  ids \ {id})

checkWorkerHeartbeats ==
  LET reaped == ReapAll(registeredWorkers, workspaceRouting,
                        Expired(registeredWorkers, now))
  IN /\ registeredWorkers' = reaped[1]
     /\ workerOrder' = OrderDelete(workerOrder, Expired(registeredWorkers, now))
     /\ workspaceRouting' = reaped[2]
     /\ lastOp' = [op |-> "reap", id |-> 0, success |-> TRUE]
     /\ roundTrip' = NoRoundTrip
     /\ UNCHANGED now

(***************************************************************************)
(* The master's clock advances.                                            *)
(***************************************************************************)
Tick ==
  /\ now < MaxTicks * ClockStep
  /\ now' = now + ClockStep
  /\ UNCHANGED <<registeredWorkers, workerOrder, workspaceRouting, lastOp, roundTrip>>
  /\ OnlyRegistry

RegistryInit ==
  /\ registeredWorkers = EmptyMap
  /\ workerOrder = <<>>
  /\ workspaceRouting = EmptyMap
  /\ now = 0
  /\ lastOp = [op |-> "none", id |-> 0, success |-> TRUE]
  /\ roundTrip = NoRoundTrip

Register ==
  /\ \E id \in InstanceIds, p \in Paths :
       registerWorker([instanceId |-> id, workspacePath |-> p])
  /\ OnlyRegistry

Deregister ==
  /\ \E id \in InstanceIds : deregisterWorker(id)
  /\ OnlyRegistry

Heartbeat ==
  /\ \E id \in InstanceIds, s \in Statuses, ts \in Timestamps :
       handleHeartbeat(id, [status |-> s, timestamp |-> ts])
  /\ OnlyRegistry

Reap == checkWorkerHeartbeats /\ OnlyRegistry

(***************************************************************************)
(* master.ts: the POST /coordination/workers/register route.  The JSON     *)
(* body parser answers 400 to a body that is not valid JSON; every parsed  *)
(* body is handed to registerWorker as it is, and a field the body lacks   *)
(* reads as undefined.  Of the six fields of a RegistrationRequest the     *)
(* body keeps instanceId and workspacePath apart; rest tells whether       *)
(* workspaceName, port, capabilities and version are all there.            *)
(***************************************************************************)
UndefinedPath == "undefined"

RegistrationBodies ==
  [json : {"object"},
   instanceId : InstanceIds \cup {Undefined},
   workspacePath : Paths \cup {UndefinedPath},
   rest : {"present", "missing"}]
  \cup {[json |-> "invalid", instanceId |-> Undefined,
          workspacePath |-> UndefinedPath, rest |-> "missing"]}

PostRegister(body) ==
  IF body.json = "invalid"
  THEN /\ lastOp' = [op |-> "register", id |-> Undefined, success |-> FALSE]
       /\ roundTrip' = NoRoundTrip
       /\ UNCHANGED <<registeredWorkers, workerOrder, workspaceRouting, now>>
  ELSE registerWorker([instanceId |-> body.instanceId,
                       workspacePath |-> body.workspacePath])

PostRegistration ==
  /\ \E body \in RegistrationBodies : PostRegister(body)
  /\ OnlyRegistry


(***************************************************************************)
(* election.ts: the LeaderElection object of one process.                  *)
(***************************************************************************)
MaxElectionWorkers == 2
MaxRuns == 2
MaxCandidates == 3

ElectionWorkers == 1..MaxElectionWorkers
RunIds == 1..MaxRuns
QuorumSizes == {0, 2}
WorkspaceScores == {26, 53}
Uptimes == {0, 3000}
ResourceUsages == {20, 50}

NoCandidate == [instanceId |-> 0, workspaceScore |-> 0, uptime |-> 0,
                resourceUsage |-> 0]
Pending == [state |-> "pending", value |-> NoCandidate]
Failed == [state |-> "failed", value |-> NoCandidate]
Answered(c) == [state |-> "ok", value |-> c]

\* Map in insertion order: set keeps the position of a key already present.
OMapHas(m, k) == \E i \in 1..Len(m) : m[i].key = k
OMapSet(m, k, v) ==
  IF OMapHas(m, k)
  THEN [i \in 1..Len(m) |-> IF m[i].key = k THEN [key |-> k, value |-> v] ELSE m[i]]
  ELSE Append(m, [key |-> k, value |-> v])
OMapKeys(m) == {m[i].key : i \in 1..Len(m)}
OMapValueList(m) == [i \in 1..Len(m) |-> m[i].value]

\* String.prototype.localeCompare on instance ids, which the model orders
\* as integers.
localeCompare(x, y) == IF x < y THEN -1 ELSE IF x > y THEN 1 ELSE 0

compareCandidates_uptimeAscending(a, b) ==
  IF a.workspaceScore # b.workspaceScore THEN b.workspaceScore - a.workspaceScore
  ELSE IF a.uptime # b.uptime THEN a.uptime - b.uptime
  ELSE IF a.resourceUsage # b.resourceUsage THEN a.resourceUsage - b.resourceUsage
  ELSE localeCompare(a.instanceId, b.instanceId)

\* The comparator handed to candidateList.sort.
compareCandidates(a, b) ==
  IF a.workspaceScore # b.workspaceScore THEN b.workspaceScore - a.workspaceScore
  ELSE IF a.uptime # b.uptime THEN b.uptime - a.uptime
  ELSE IF a.resourceUsage # b.resourceUsage THEN a.resourceUsage - b.resourceUsage
  ELSE localeCompare(a.instanceId, b.instanceId)

\* Array.prototype.sort is stable: an element goes behind every element
\* that does not compare greater than it.
RECURSIVE InsertSorted(_, _)
InsertSorted(x, list) ==
  IF list = <<>> THEN <<x>>
  ELSE IF compareCandidates(Head(list), x) <= 0
       THEN <<Head(list)>> \o InsertSorted(x, Tail(list))
       ELSE <<x>> \o list

RECURSIVE SortCandidates(_)
SortCandidates(list) ==
  IF list = <<>> THEN <<>>
  ELSE InsertSorted(list[Len(list)], SortCandidates(SubSeq(list, 1, Len(list) - 1)))

\* calculateElectionWinner on a non-empty candidate map.
calculateElectionWinner(cands) == Head(SortCandidates(OMapValueList(cands)))

Ceil2(n) == (n + 1) \div 2

validateQuorum(cands, cfg, totalWorkers) ==
  LET required == IF cfg # 0 THEN cfg ELSE Ceil2(totalWorkers)
  IN Len(cands) >= required

\* collectCandidates: the forEach over the settled results.
RECURSIVE StoreReplies(_, _, _, _)
StoreReplies(cands, workers, replies, i) ==
  IF i > Len(workers) THEN cands
  ELSE StoreReplies(IF replies[i].state = "ok"
                    THEN OMapSet(cands, workers[i], replies[i].value)
                    ELSE cands,
                    workers, replies, i + 1)

NewRun == [pc |-> "new", workers |-> <<>>, replies |-> <<>>,
           winner |-> 0, error |-> "none"]

\* The finally block of startElection.
Finally(pendingTimers) ==
  /\ electionInProgress' = FALSE
  /\ electionTimeout' = 0
  /\ timers' = IF electionTimeout # 0
               THEN pendingTimers \ {electionTimeout}
               ELSE pendingTimers

\* Worker lists handed to startElection: distinct workers in some order.
WorkerLists ==
  {ws \in UNION {[1..n -> ElectionWorkers] : n \in 0..MaxElectionWorkers} :
     \A i, j \in 1..Len(ws) : i # j => ws[i] # ws[j]}

\* startElection up to its first await: the in-progress check, the reset,
\* the candidate requests and the election timer.
startElection(r, availableWorkers) ==
  /\ run[r].pc = "new"
  /\ \A q \in RunIds : q < r => run[q].pc # "new"
  /\ IF electionInProgress
     THEN /\ run' = [run EXCEPT ![r] = [NewRun EXCEPT !.pc = "threw",
                                                      !.error = "in_progress",
                                                      !.workers = availableWorkers]]
          /\ UNCHANGED <<electionInProgress, candidates, electionTimeout, timers>>
     ELSE /\ electionInProgress' = TRUE
          /\ candidates' = <<>>
          /\ run' = [run EXCEPT ![r] =
                       [NewRun EXCEPT !.pc = "collecting",
                                      !.workers = availableWorkers,
                                      !.replies = [i \in 1..Len(availableWorkers) |-> Pending]]]
          /\ timers' = timers \cup {r}
          /\ electionTimeout' = r
  /\ UNCHANGED <<quorumSize, sent, elected>>

\* requestCandidateInfo settles: the worker's candidate record arrives, or
\* the request fails or times out.  A reply after the race has been decided
\* has no effect.
CandidateReply(r, i, reply) ==
  /\ run[r].pc = "collecting"
  /\ i \in 1..Len(run[r].replies)
  /\ run[r].replies[i].state = "pending"
  /\ run' = [run EXCEPT ![r].replies[i] = reply]
  /\ UNCHANGED <<quorumSize, electionInProgress, candidates, electionTimeout,
                 timers, sent, elected>>

AllSettled(r) == \A i \in 1..Len(run[r].replies) : run[r].replies[i].state # "pending"

\* Promise.allSettled wins the race: the rest of collectCandidates, then
\* calculateElectionWinner and broadcastElectionResult up to its await.
CollectDone(r) ==
  /\ run[r].pc = "collecting"
  /\ AllSettled(r)
  /\ LET cands == StoreReplies(candidates, run[r].workers, run[r].replies, 1)
     IN /\ candidates' = cands
        /\ IF ~validateQuorum(cands, quorumSize, Len(run[r].workers))
           THEN /\ run' = [run EXCEPT ![r].pc = "threw", ![r].error = "quorum"]
                /\ Finally(timers)
                /\ UNCHANGED sent
           ELSE IF Len(cands) = 0
           THEN /\ run' = [run EXCEPT ![r].pc = "threw", ![r].error = "no_candidates"]
                /\ Finally(timers)
                /\ UNCHANGED sent
           ELSE LET winner == calculateElectionWinner(cands)
                IN /\ run' = [run EXCEPT ![r].pc = "broadcasting",
                                         ![r].winner = winner.instanceId]
                   /\ sent' = sent \cup
                        {[run |-> r, to |-> k, newMasterId |-> winner.instanceId] :
                           k \in OMapKeys(cands) \ {winner.instanceId}}
                   /\ UNCHANGED <<electionInProgress, electionTimeout, timers>>
  /\ UNCHANGED <<quorumSize, elected>>

\* The timer of createElectionTimeout fires.  It rejects the race only while
\* a candidate request is still pending; the rejection leaves startElection
\* through catch and finally.
ElectionTimeoutFires(r) ==
  /\ r \in timers
  /\ IF run[r].pc = "collecting" /\ ~AllSettled(r)
     THEN /\ run' = [run EXCEPT ![r].pc = "threw", ![r].error = "timeout"]
          /\ Finally(timers \ {r})
     ELSE /\ timers' = timers \ {r}
          /\ UNCHANGED <<run, electionInProgress, electionTimeout>>
  /\ UNCHANGED <<quorumSize, candidates, sent, elected>>

\* The broadcast settles and startElection returns the winner.
BroadcastDone(r) ==
  /\ run[r].pc = "broadcasting"
  /\ run' = [run EXCEPT ![r].pc = "returned"]
  /\ Finally(timers)
  /\ UNCHANGED <<quorumSize, candidates, sent, elected>>

abortElection ==
  /\ IF electionInProgress
     THEN /\ Finally(timers)
          /\ candidates' = <<>>
     ELSE UNCHANGED <<electionInProgress, electionTimeout, timers, candidates>>
  /\ UNCHANGED <<quorumSize, run, sent, elected>>

ElectionIdle ==
  /\ quorumSize = 0
  /\ electionInProgress = FALSE
  /\ candidates = <<>>
  /\ electionTimeout = 0
  /\ timers = {}
  /\ run = [r \in RunIds |-> NewRun]
  /\ sent = {}
  /\ elected = 0

ElectionInit ==
  /\ quorumSize \in QuorumSizes
  /\ electionInProgress = FALSE
  /\ candidates = <<>>
  /\ electionTimeout = 0
  /\ timers = {}
  /\ run = [r \in RunIds |-> NewRun]
  /\ sent = {}
  /\ elected = 0

StartElection ==
  /\ \E r \in RunIds, ws \in WorkerLists : startElection(r, ws)
  /\ OnlyElection

ReplyArrives ==
  /\ \E r \in RunIds, i \in 1..MaxElectionWorkers, s \in WorkspaceScores :
       /\ i <= Len(run[r].workers)
       /\ CandidateReply(r, i, Answered([instanceId |-> run[r].workers[i],
                                         workspaceScore |-> s,
                                         uptime |-> 0,
                                         resourceUsage |-> 20]))
  /\ OnlyElection

ReplyFails ==
  /\ \E r \in RunIds, i \in 1..MaxElectionWorkers : CandidateReply(r, i, Failed)
  /\ OnlyElection

Collected == (\E r \in RunIds : CollectDone(r)) /\ OnlyElection

TimeoutFires == (\E r \in RunIds : ElectionTimeoutFires(r)) /\ OnlyElection

Broadcast == (\E r \in RunIds : BroadcastDone(r)) /\ OnlyElection

Abort == abortElection /\ OnlyElection

(***************************************************************************)
(* calculateElectionWinner applied to a candidate map drawn from the       *)
(* records workers can answer with.                                        *)
(***************************************************************************)
CandidateRecords ==
  [instanceId : 1..MaxCandidates, workspaceScore : WorkspaceScores,
   uptime : Uptimes, resourceUsage : ResourceUsages]

CandidateMaps ==
  UNION {{[i \in 1..n |-> [key |-> i, value |-> f[i]]] :
            f \in [1..n -> CandidateRecords]} : n \in 1..MaxCandidates}

WinnerInit ==
  /\ quorumSize = 0
  /\ electionInProgress = TRUE
  /\ candidates \in CandidateMaps
  /\ electionTimeout = 0
  /\ timers = {}
  /\ run = [r \in RunIds |-> NewRun]
  /\ sent = {}
  /\ elected = 0

CalculateWinner ==
  /\ elected = 0
  /\ elected' = calculateElectionWinner(candidates).instanceId
  /\ UNCHANGED <<quorumSize, electionInProgress, candidates, electionTimeout,
                 timers, run, sent>>
  /\ OnlyElection

(***************************************************************************)
(* worker.ts: failover.  Workers watch the master's health, run an         *)
(* election after three failed checks and promote themselves on a won      *)
(* election, on a failed election, or when the elected master does not     *)
(* show up.  Registration retries and the standalone fallback are not      *)
(* part of this machine.                                                   *)
(***************************************************************************)
MaxWorkers == 2
MaxAttempts == 2

maxMasterFailures == 3

FWorkers == 1..MaxWorkers
AttemptIds == 1..MaxAttempts

\* McpCoordinator.instanceId of worker w, and the separate id that
\* createWorkerInfo draws for the WorkerInfo it registers with the master.
CoordId(w) == w
InfoId(w) == MaxWorkers + w
WorkerOfKey(k) == IF k > MaxWorkers THEN k - MaxWorkers ELSE k

\* The process answering /coordination/health on the master port.
MasterProcess == 0
NoProcess == -1
coordinationHost == IF master # "dead" THEN MasterProcess ELSE NoProcess

\* CoordinationDetector.checkMasterHealth.
checkMasterHealth ==
  IF master = "healthy" THEN "healthy"
  ELSE IF master = "degraded" THEN "degraded"
  ELSE "unreachable"

IdleAttempt == [pc |-> "idle", known |-> <<>>, why |-> "no"]

LowestIdle(slots) ==
  IF \E a \in AttemptIds : slots[a].pc = "idle"
  THEN CHOOSE a \in AttemptIds :
         /\ slots[a].pc = "idle"
         /\ \A b \in AttemptIds : slots[b].pc = "idle" => a <= b
  ELSE 0

\* A call of waitForNewMaster or initiateElection starts in a free slot.
Spawn(slots, pc) ==
  IF LowestIdle(slots) = 0 THEN slots
  ELSE [slots EXCEPT ![LowestIdle(slots)] = [IdleAttempt EXCEPT !.pc = pc]]

\* becomeMaster up to its await of stop(): the re-entry check, the flag and
\* the timers cleared by stop().
becomeMaster(w, a, att, why) ==
  IF becomingMaster[w]
  THEN /\ attempt' = [att EXCEPT ![w][a] = IdleAttempt]
       /\ UNCHANGED <<becomingMaster, masterHealthTimer>>
  ELSE /\ attempt' = [att EXCEPT ![w][a] = [IdleAttempt EXCEPT !.pc = "stopping",
                                                               !.why = why]]
       /\ becomingMaster' = [becomingMaster EXCEPT ![w] = TRUE]
       /\ masterHealthTimer' = [masterHealthTimer EXCEPT ![w] = FALSE]

\* startMasterHealthCheck: one firing of the interval, with
\* handleMasterFailure and initiateElection up to its first await.  The
\* counter saturates at maxMasterFailures, the only value it is compared to.
\* handleMasterFailure with the counter it has just incremented to `count`,
\* and initiateElection up to its first await.
handleMasterFailure_duringElection(w, count) ==
  /\ masterFailureCount' = [masterFailureCount EXCEPT ![w] = count]
  /\ IF count >= maxMasterFailures /\ ~becomingMaster[w]
     THEN attempt' = [attempt EXCEPT ![w] = Spawn(attempt[w], "discovering")]
     ELSE UNCHANGED attempt

handleMasterFailure(w, count) ==
  /\ masterFailureCount' = [masterFailureCount EXCEPT ![w] = count]
  /\ IF /\ count >= maxMasterFailures
        /\ ~becomingMaster[w]
        /\ ~electing[w]
     THEN attempt' = [attempt EXCEPT ![w] = Spawn(attempt[w], "discovering")]
     ELSE UNCHANGED attempt

HealthCheck(w) ==
  /\ masterHealthTimer[w]
  /\ IF checkMasterHealth = "healthy"
     THEN /\ masterFailureCount' = [masterFailureCount EXCEPT ![w] = 0]
          /\ UNCHANGED attempt
     ELSE handleMasterFailure(w, IF masterFailureCount[w] < maxMasterFailures
                                 THEN masterFailureCount[w] + 1
                                 ELSE maxMasterFailures)
  /\ UNCHANGED <<master, promotedAtKill, becomingMaster, masterHealthTimer, workerRunning,
                 electing, mode, becameMaster>>
  /\ UNCHANGED registryVars

\* Ascending list of a set of candidate keys.
RECURSIVE KeyList(_)
KeyList(keys) ==
  IF keys = {} THEN <<>>
  ELSE LET k == CHOOSE x \in keys : \A y \in keys : x <= y
       IN <<k>> \o KeyList(keys \ {k})

\* discoverOtherWorkers: the master's registry listing when the master
\* still answers with a non-empty list, else the port scan, which skips
\* the own port and finds workers whose /health answers in time.  The
\* filter compares the listed ids with the coordinator's instanceId.
DiscoveredLists(w) ==
  LET fromMaster == {k \in DOMAIN registeredWorkers : k # CoordId(w)}
      scans == {KeyList({CoordId(v) : v \in found}) :
                  found \in SUBSET {v \in FWorkers \ {w} : workerRunning[v]}}
  IN IF master = "healthy" /\ DOMAIN registeredWorkers # {}
     THEN {KeyList(fromMaster)}
     ELSE IF master = "degraded" /\ DOMAIN registeredWorkers # {}
     THEN {KeyList(fromMaster)} \cup scans
     ELSE scans

\* initiateElection after discovery: startElection up to its first await,
\* and the catch branch when it throws 'Election already in progress'.
DiscoverDone(w, a) ==
  /\ attempt[w][a].pc = "discovering"
  /\ \E ws \in DiscoveredLists(w) :
       IF electing[w]
       THEN /\ becomeMaster(w, a, attempt, "fallback")
            /\ UNCHANGED electing
       ELSE /\ electing' = [electing EXCEPT ![w] = TRUE]
            /\ attempt' = [attempt EXCEPT ![w][a] =
                             [IdleAttempt EXCEPT !.pc = "collecting", !.known = ws]]
            /\ UNCHANGED <<becomingMaster, masterHealthTimer>>
  /\ UNCHANGED <<master, promotedAtKill, masterFailureCount, workerRunning, mode, becameMaster>>
  /\ UNCHANGED registryVars

\* Replies a list of workers can give to the candidate requests: a worker
\* that is not running gives none.
ReplySets(ws) ==
  {replies \in [1..Len(ws) -> {Failed} \cup
                  {Answered([instanceId |-> CoordId(v), workspaceScore |-> sc,
                             uptime |-> 0, resourceUsage |-> 20]) :
                     v \in FWorkers, sc \in WorkspaceScores}] :
     \A i \in 1..Len(ws) :
       replies[i].state = "ok" =>
         /\ replies[i].value.instanceId = CoordId(WorkerOfKey(ws[i]))
         /\ workerRunning[WorkerOfKey(ws[i])]}

\* handleElectionMessage calls waitForNewMaster without awaiting it: the
\* call runs on its own, marked by why = "message".
SpawnWait(slots) ==
  IF LowestIdle(slots) = 0 THEN slots
  ELSE [slots EXCEPT ![LowestIdle(slots)] =
          [IdleAttempt EXCEPT !.pc = "waiting", !.why = "message"]]

\* handleElectionMessage(MASTER_ELECTED) at the workers the message reaches:
\* a worker other than the new master starts waitForNewMaster.
Delivered(att, receivers, newMasterId) ==
  [v \in FWorkers |->
     IF v \in receivers /\ newMasterId # CoordId(v)
     THEN SpawnWait(att[v])
     ELSE att[v]]

\* The election of a worker fails: collection timed out, quorum was not met
\* or no candidate was collected.  startElection's finally resets the flag
\* and initiateElection's catch falls back to becomeMaster.
ElectionFails(w, a) ==
  /\ attempt[w][a].pc = "collecting"
  /\ LET ws == attempt[w][a].known
     IN \/ Len(ws) > 0
        \/ \E replies \in ReplySets(ws) :
             LET cands == StoreReplies(<<>>, ws, replies, 1)
             IN ~validateQuorum(cands, quorumSize, Len(ws)) \/ Len(cands) = 0
  /\ electing' = [electing EXCEPT ![w] = FALSE]
  /\ becomeMaster(w, a, attempt, "fallback")
  /\ UNCHANGED <<master, promotedAtKill, masterFailureCount, workerRunning, mode, becameMaster>>
  /\ UNCHANGED registryVars

\* The election of a worker returns a winner: candidates collected, winner
\* calculated, MASTER_ELECTED broadcast, flag reset; then becomeMaster for
\* the own id, waitForNewMaster otherwise.
ElectionReturns(w, a) ==
  /\ attempt[w][a].pc = "collecting"
  /\ LET ws == attempt[w][a].known
     IN \E replies \in ReplySets(ws) :
          LET cands == StoreReplies(<<>>, ws, replies, 1)
          IN /\ validateQuorum(cands, quorumSize, Len(ws))
             /\ Len(cands) > 0
             /\ LET winnerId == calculateElectionWinner(cands).instanceId
                    targets == {WorkerOfKey(k) : k \in OMapKeys(cands) \ {winnerId}}
                IN \E receivers \in SUBSET {v \in targets : workerRunning[v]} :
                     IF winnerId = CoordId(w)
                     THEN becomeMaster(w, a, Delivered(attempt, receivers, winnerId), "won")
                     ELSE /\ attempt' =
                               Delivered([attempt EXCEPT ![w][a] =
                                            [IdleAttempt EXCEPT !.pc = "waiting"]],
                                         receivers, winnerId)
                          /\ UNCHANGED <<becomingMaster, masterHealthTimer>>
  /\ electing' = [electing EXCEPT ![w] = FALSE]
  /\ UNCHANGED <<master, promotedAtKill, masterFailureCount, workerRunning, mode, becameMaster>>
  /\ UNCHANGED registryVars

WorkerPath(w) == IF w = 1 THEN "/a" ELSE "/a/b"

\* registerWithMaster, the request a worker has sent.
RegistrationRequest(w) == [instanceId |-> InfoId(w), workspacePath |-> WorkerPath(w)]

\* waitForNewMaster: every check of the master port fails until maxWaitTime
\* has passed, and becomeMaster is called.  The loop's other exit needs a
\* healthy answer on the master port, which no process of this machine
\* gives once the master has degraded or died: becomeMaster starts no
\* server.
WaitTimesOut_noPromotion(w, a) ==
  /\ attempt[w][a].pc = "waiting"
  /\ checkMasterHealth # "healthy"
  /\ attempt' = [attempt EXCEPT ![w][a] = IdleAttempt]
  /\ UNCHANGED <<master, promotedAtKill, masterFailureCount, workerRunning, electing, mode,
                 becameMaster, becomingMaster, masterHealthTimer>>
  /\ UNCHANGED registryVars

WaitTimesOut(w, a) ==
  /\ attempt[w][a].pc = "waiting"
  /\ checkMasterHealth # "healthy"
  /\ becomeMaster(w, a, attempt, "timeout")
  /\ UNCHANGED <<master, promotedAtKill, masterFailureCount, workerRunning, electing, mode,
                 becameMaster>>
  /\ UNCHANGED registryVars

\* becomeMaster after stop() has settled: the DELETE was served by a master
\* that still answers or failed, the local server is closed, workerInfo is
\* null and the failure counter is reset.  No master server is started and
\* mode is left as it is.
StopDone(w, a) ==
  /\ attempt[w][a].pc = "stopping"
  /\ \/ /\ master # "dead"
        /\ deregisterWorker(InfoId(w))
     \/ /\ master # "healthy"
        /\ UNCHANGED registryVars
  /\ workerRunning' = [workerRunning EXCEPT ![w] = FALSE]
  /\ masterFailureCount' = [masterFailureCount EXCEPT ![w] = 0]
  /\ becameMaster' = [becameMaster EXCEPT ![w] = attempt[w][a].why]
  /\ attempt' = [attempt EXCEPT ![w][a] = IdleAttempt]
  /\ UNCHANGED <<master, promotedAtKill, becomingMaster, masterHealthTimer, electing, mode>>

\* The master process slows down for good (checkMasterHealth answers
\* "degraded") or is killed.
MasterChanges(from, to) ==
  /\ master = from
  /\ master' = to
  /\ promotedAtKill' = IF to = "dead"
                       THEN {w \in FWorkers : becameMaster[w] # "no"}
                       ELSE promotedAtKill
  /\ UNCHANGED <<masterFailureCount, becomingMaster, masterHealthTimer,
                 workerRunning, electing, mode, attempt, becameMaster>>
  /\ UNCHANGED registryVars

\* The master's answers had been slow (responseTime > 2000 in
\* checkMasterHealth) and arrive in time again.
MaxRecoveries == 1

MasterRecovers ==
  /\ recoveries < MaxRecoveries
  /\ recoveries' = recoveries + 1
  /\ MasterChanges("degraded", "healthy")
  /\ UNCHANGED unhandled

\* waitForNewMaster sees a HEALTHY master and calls registerWithMaster,
\* which throws 'Worker info not initialized' once stop() has set
\* workerInfo to null.  The call made by initiateElection is awaited inside
\* its try block, whose catch falls back to becomeMaster; the call made by
\* handleElectionMessage has no handler.  With workerInfo set, the request
\* is served by the master.
WaitSeesMaster(w, a) ==
  /\ attempt[w][a].pc = "waiting"
  /\ checkMasterHealth = "healthy"
  /\ IF workerRunning[w]
     THEN /\ registerWorker(RegistrationRequest(w))
          /\ attempt' = [attempt EXCEPT ![w][a] = IdleAttempt]
          /\ masterFailureCount' = [masterFailureCount EXCEPT ![w] = 0]
          /\ UNCHANGED <<unhandled, becomingMaster, masterHealthTimer>>
     ELSE /\ UNCHANGED registryVars
          /\ masterFailureCount' = [masterFailureCount EXCEPT ![w] = 0]
          /\ IF attempt[w][a].why = "message"
             THEN /\ unhandled' = unhandled \cup {w}
                  /\ attempt' = [attempt EXCEPT ![w][a] = IdleAttempt]
                  /\ UNCHANGED <<becomingMaster, masterHealthTimer>>
             ELSE /\ becomeMaster(w, a, attempt, "fallback")
                  /\ UNCHANGED unhandled
  /\ UNCHANGED <<master, promotedAtKill, workerRunning, electing, mode, becameMaster,
                 recoveries>>

\* The same interval with the counter as the code keeps it, counting on
\* past maxMasterFailures; the model stops the probes of a worker whose
\* counter has reached MaxFailureCount.
MaxFailureCount == 4

HealthProbe(w) ==
  /\ masterHealthTimer[w]
  /\ IF checkMasterHealth = "healthy"
     THEN /\ masterFailureCount' = [masterFailureCount EXCEPT ![w] = 0]
          /\ UNCHANGED attempt
     ELSE /\ masterFailureCount[w] < MaxFailureCount
          /\ handleMasterFailure(w, masterFailureCount[w] + 1)
  /\ lastProbe' = ~lastProbe
  /\ UNCHANGED <<master, promotedAtKill, becomingMaster, masterHealthTimer, workerRunning,
                 electing, mode, becameMaster, shutdownTimer>>
  /\ UNCHANGED registryVars

\* handleMasterShutdown: the worker's /coordination/shutdown route got the
\* notification of a master that is stopping and still answers.
handleMasterShutdown(w) ==
  /\ master # "dead"
  /\ workerRunning[w]
  /\ ~shutdownTimer[w]
  /\ masterFailureCount' = [masterFailureCount EXCEPT ![w] = maxMasterFailures]
  /\ shutdownTimer' = [shutdownTimer EXCEPT ![w] = TRUE]
  /\ UNCHANGED <<master, promotedAtKill, becomingMaster, masterHealthTimer, workerRunning,
                 electing, mode, becameMaster, attempt, lastProbe>>
  /\ UNCHANGED registryVars

\* The 2 s timer fires: handleMasterFailure.
ShutdownDelayEnds(w) ==
  /\ shutdownTimer[w]
  /\ masterFailureCount[w] < MaxFailureCount
  /\ shutdownTimer' = [shutdownTimer EXCEPT ![w] = FALSE]
  /\ handleMasterFailure(w, masterFailureCount[w] + 1)
  /\ UNCHANGED <<master, promotedAtKill, becomingMaster, masterHealthTimer, workerRunning,
                 electing, mode, becameMaster, lastProbe>>
  /\ UNCHANGED registryVars

WatchIdle ==
  /\ lastProbe = FALSE
  /\ shutdownTimer = [w \in FWorkers |-> FALSE]

BackgroundIdle ==
  /\ unhandled = {}
  /\ recoveries = 0
  /\ WatchIdle

FailoverIdle ==
  /\ BackgroundIdle
  /\ master = "healthy"
  /\ masterFailureCount = [w \in FWorkers |-> 0]
  /\ becomingMaster = [w \in FWorkers |-> FALSE]
  /\ masterHealthTimer = [w \in FWorkers |-> FALSE]
  /\ workerRunning = [w \in FWorkers |-> FALSE]
  /\ electing = [w \in FWorkers |-> FALSE]
  /\ mode = [w \in FWorkers |-> "worker"]
  /\ attempt = [w \in FWorkers |-> [a \in AttemptIds |-> IdleAttempt]]
  /\ becameMaster = [w \in FWorkers |-> "no"]
  /\ promotedAtKill = {}

\* Every worker has started: it is registered with a healthy master and
\* its timers run.
FailoverInit ==
  /\ BackgroundIdle
  /\ master = "healthy"
  /\ masterFailureCount = [w \in FWorkers |-> 0]
  /\ becomingMaster = [w \in FWorkers |-> FALSE]
  /\ masterHealthTimer = [w \in FWorkers |-> TRUE]
  /\ workerRunning = [w \in FWorkers |-> TRUE]
  /\ electing = [w \in FWorkers |-> FALSE]
  /\ mode = [w \in FWorkers |-> "worker"]
  /\ attempt = [w \in FWorkers |-> [a \in AttemptIds |-> IdleAttempt]]
  /\ becameMaster = [w \in FWorkers |-> "no"]
  /\ promotedAtKill = {}

RegistryStarted ==
  /\ registeredWorkers =
       [k \in {InfoId(w) : w \in FWorkers} |->
          NewWorkerInfo(RegistrationRequest(WorkerOfKey(k)), 0)]
  /\ workerOrder = [w \in FWorkers |-> InfoId(w)]
  /\ workspaceRouting =
       [p \in {WorkerPath(w) : w \in FWorkers} |->
          InfoId(CHOOSE w \in FWorkers :
                   /\ WorkerPath(w) = p
                   /\ \A v \in FWorkers : WorkerPath(v) = p => v <= w)]
  /\ now = 0
  /\ lastOp = [op |-> "register", id |-> InfoId(MaxWorkers), success |-> TRUE]
  /\ roundTrip = NoRoundTrip

HealthTick == (\E w \in FWorkers : HealthCheck(w)) /\ OnlyFailover

Discovered == (\E w \in FWorkers, a \in AttemptIds : DiscoverDone(w, a)) /\ OnlyFailover

ElectionFailed == (\E w \in FWorkers, a \in AttemptIds : ElectionFails(w, a)) /\ OnlyFailover

ElectionReturned ==
  (\E w \in FWorkers, a \in AttemptIds : ElectionReturns(w, a)) /\ OnlyFailover

WaitTimeout == (\E w \in FWorkers, a \in AttemptIds : WaitTimesOut(w, a)) /\ OnlyFailover

Stopped == (\E w \in FWorkers, a \in AttemptIds : StopDone(w, a)) /\ OnlyFailover

MasterDegrades == MasterChanges("healthy", "degraded") /\ OnlyFailover

MasterKilled ==
  (\E from \in {"healthy", "degraded"} : MasterChanges(from, "dead")) /\ OnlyFailover

MasterRecovered == MasterRecovers /\ OnlyBackground

HealthProbed == (\E w \in FWorkers : HealthProbe(w)) /\ OnlyWatch

MasterShutdownReceived == (\E w \in FWorkers : handleMasterShutdown(w)) /\ OnlyWatch

ShutdownDelayEnded == (\E w \in FWorkers : ShutdownDelayEnds(w)) /\ OnlyWatch

WaitSawMaster ==
  (\E w \in FWorkers, a \in AttemptIds : WaitSeesMaster(w, a)) /\ OnlyBackground

\* A CoordinationDetector that has not been asked yet.
NoDetection ==
  [pc |-> "idle", first |-> "none", checks |-> <<>>, waited |-> FALSE, final |-> "none",
   result |-> "none"]

DetectorIdle == detector = NoDetection

(***************************************************************************)
(* master.ts, mcp-server.ts: shutting the master down.  stop() clears the  *)
(* reaper's interval, awaits broadcastShutdown and closes the server it    *)
(* created itself; a master whose routes were added to the host's app      *)
(* (externalApp) has no server of its own, and stopMcpServer closes the     *)
(* host's server after stop() has returned.                                *)
(***************************************************************************)
Running(externalApp) ==
  [pc |-> "running", externalApp |-> externalApp, heartbeatChecker |-> TRUE,
   notified |-> EmptyMap, deadline |-> FALSE, server |-> "open"]

\* Promise.race([Promise.allSettled(shutdownPromises), the 5 s timer]).
raceSettled_noWait(s) == TRUE

raceSettled(s) ==
  \/ \A id \in DOMAIN s.notified : s.notified[id] # "sent"
  \/ s.deadline

\* stop() up to the await inside broadcastShutdown: with no worker
\* registered broadcastShutdown returns at once, else one request per
\* registered worker has been written.
stop ==
  /\ shutdown.pc = "running"
  /\ shutdown' =
       [shutdown EXCEPT
          !.heartbeatChecker = FALSE,
          !.pc = "broadcasting",
          !.notified = [id \in DOMAIN registeredWorkers |-> "sent"]]
  /\ UNCHANGED registryVars

\* notifyWorkerShutdown settles: a 2xx answer, or another status, a socket
\* error, or 3 s without an answer.
notifyWorkerShutdown(id, answer) ==
  /\ id \in DOMAIN shutdown.notified
  /\ shutdown.notified[id] = "sent"
  /\ shutdown' = [shutdown EXCEPT !.notified[id] = answer]
  /\ UNCHANGED registryVars

\* The 5 s timer of the race fires; there is none when no worker was
\* registered.
ShutdownDeadline ==
  /\ shutdown.pc = "broadcasting"
  /\ DOMAIN shutdown.notified # {}
  /\ ~shutdown.deadline
  /\ shutdown' = [shutdown EXCEPT !.deadline = TRUE]
  /\ UNCHANGED registryVars

\* stop() after the await: close coordinationHttpServer if there is one.
stopReturns ==
  /\ shutdown.pc = "broadcasting"
  /\ raceSettled(shutdown)
  /\ shutdown' = [shutdown EXCEPT
                    !.pc = "stopped",
                    !.server = IF shutdown.externalApp THEN shutdown.server ELSE "closed"]
  /\ UNCHANGED registryVars

\* stopMcpServer after `await serverInstance.coordinator.stop()`.
stopMcpServer ==
  /\ shutdown.pc = "stopped"
  /\ shutdown.externalApp
  /\ shutdown.server = "open"
  /\ shutdown' = [shutdown EXCEPT !.server = "closed"]
  /\ UNCHANGED registryVars

ShutdownIdle == shutdown = Running(TRUE)

\* The routes answer while the server is open; the reaper runs while its
\* interval is set.
RegisterWhileOpen == shutdown.server = "open" /\ Register

ReaperTick == shutdown.heartbeatChecker /\ Reap

StopCalled == stop /\ OnlyShutdown

ShutdownNotified ==
  (\E id \in InstanceIds, answer \in {"ok", "failed"} : notifyWorkerShutdown(id, answer))
  /\ OnlyShutdown

DeadlinePassed == ShutdownDeadline /\ OnlyShutdown

StopReturned == stopReturns /\ OnlyShutdown

HostServerClosed == stopMcpServer /\ OnlyShutdown

(***************************************************************************)
(* master.ts: the router.  handleToolCall routes a call (routeToolCall,    *)
(* findTargetWorker, callWorkerTool with the RemoteToolExecutor of         *)
(* toolExecutor.ts) and appends a ToolCallLog to toolCallHistory.          *)
(***************************************************************************)
MaxCalls == 1

maxRetries == 3
historyLimit == 100

\* A workspace-specific tool and a tool that is in no routing list.
Tools == {"get_diagnostics", "get_file_content"}
workspace_specific == {"get_diagnostics"}

NoUri == "none"
NoWorkspace == "none"
Uris == {"/a/x", "file:///a/b/x", "/c/x"}
NoTarget == -1

\* The characters of the strings the router compares.
Chars(str) ==
  CASE str = "/a" -> <<"/", "a">>
    [] str = "/a/b" -> <<"/", "a", "/", "b">>
    [] str = "/a/x" -> <<"/", "a", "/", "x">>
    [] str = "/a/b/x" -> <<"/", "a", "/", "b", "/", "x">>
    [] str = "/c/x" -> <<"/", "c", "/", "x">>
    [] str = "file:///a/b/x" ->
         <<"f", "i", "l", "e", ":", "/", "/", "/", "a", "/", "b", "/", "x">>

startsWith(str, prefix) ==
  /\ Len(prefix) <= Len(str)
  /\ SubSeq(str, 1, Len(prefix)) = prefix

\* isFileInWorkspace: a file:// URI loses its scheme, both paths are
\* resolved (absolute paths without dot segments resolve to themselves) and
\* compared as strings; path.resolve throws on an undefined path and the
\* catch answers false.
FilePath(fileUri) ==
  IF startsWith(Chars(fileUri), Chars("file:///a/b/x"))
  THEN SubSeq(Chars(fileUri), 8, Len(Chars(fileUri)))
  ELSE Chars(fileUri)

isFileInWorkspace(fileUri, workspacePath) ==
  IF workspacePath = UndefinedPath THEN FALSE
  ELSE startsWith(FilePath(fileUri), Chars(workspacePath))

\* The first key in iteration order whose record passes the test.
FirstWorker(order, Test(_)) ==
  IF \E i \in 1..Len(order) : Test(order[i])
  THEN order[CHOOSE i \in 1..Len(order) :
               /\ Test(order[i])
               /\ \A j \in 1..(i - 1) : ~Test(order[j])]
  ELSE NoTarget

\* findActiveWorker: the active workers sorted by lastSeen descending; the
\* sort is stable, so the first of the most recent ones in Map order.
findActiveWorker(workers, order) ==
  LET IsLatestActive(id) ==
        /\ workers[id].status = "active"
        /\ \A other \in DOMAIN workers :
             workers[other].status = "active" =>
               workers[other].lastSeen <= workers[id].lastSeen
  IN FirstWorker(order, IsLatestActive)

findTargetWorker(workers, order, params) ==
  LET Named(id) == workers[id].workspacePath = params.workspace
      Contains(id) == isFileInWorkspace(params.uri, workers[id].workspacePath)
      AnyWorker(id) == TRUE
  IN IF params.workspace # NoWorkspace
     THEN FirstWorker(order, Named)
     ELSE IF params.uri # NoUri /\ FirstWorker(order, Contains) # NoTarget
     THEN FirstWorker(order, Contains)
     ELSE IF findActiveWorker(workers, order) # NoTarget
     THEN findActiveWorker(workers, order)
     ELSE FirstWorker(order, AnyWorker)

\* RemoteToolExecutor: what the worker's /tools route does to the attempts
\* of one executeTool call.  An attempt is answered with success ("ok"),
\* answered with success = false ("toolError"), or not answered at all
\* ("unreachable": refused, reset or timed out).  makeHttpRequest resolves
\* on "ok" and rejects on the other two.
AttemptOutcomes == {"ok", "toolError", "unreachable"}

\* The behaviours of a worker during one call: it answers every attempt
\* alike, or it cannot be reached at first and answers from some attempt on.
WorkerAnswers ==
  {[i \in 1..(maxRetries + 1) |-> answer] : answer \in AttemptOutcomes}
  \cup {[i \in 1..(maxRetries + 1) |-> IF i <= k THEN "unreachable" ELSE "ok"] :
          k \in 1..maxRetries}

AlwaysOk == [i \in 1..(maxRetries + 1) |-> "ok"]

\* executeWithRetry: the answers to the attempts it makes, from attempt
\* number n on; it tries again while n < maxRetries.
RECURSIVE executeWithRetry(_, _)
executeWithRetry(answers, n) ==
  IF answers[n + 1] = "ok" THEN <<"ok">>
  ELSE IF n < maxRetries
       THEN <<answers[n + 1]>> \o executeWithRetry(answers, n + 1)
       ELSE <<answers[n + 1]>>

Resolved(attempts) == Len(attempts) > 0 /\ attempts[Len(attempts)] = "ok"

\* executeLocalTool: LocalToolExecutor throws on a tool it does not know.
LocalOutcomes(tool) ==
  IF tool = "get_file_content" THEN {"error"} ELSE {"ok", "error"}

CallParams == [uri : Uris \cup {NoUri}, workspace : {NoWorkspace, "/a/b"}]

NoCall == [tool |-> "none", params |-> [uri |-> NoUri, workspace |-> NoWorkspace],
           target |-> NoTarget, attempts |-> <<>>, local |-> "none",
           kind |-> "none", by |-> NoTarget]

\* The ToolCallLog handleToolCall pushes in its finally block; routedTo is
\* declared there and never assigned.
ToolCallLog(tool, params, failed, startTime) ==
  [tool |-> tool, params |-> params, error |-> failed, timestamp |-> startTime,
   routedTo |-> Undefined]

Push_keepsAll(history, entry) == Append(history, entry)

Push(history, entry) ==
  IF Len(history) + 1 > historyLimit
  THEN Tail(Append(history, entry))
  ELSE Append(history, entry)

\* callWorkerTool: the remote result when an attempt resolved, else the
\* outcome of executeLocalTool, run in the catch block.
callWorkerTool_rethrows(worker, attempts, local) ==
  IF Resolved(attempts)
  THEN [kind |-> "result", by |-> worker]
  ELSE [kind |-> "error", by |-> worker]

callWorkerTool(worker, attempts, local) ==
  IF Resolved(attempts)
  THEN [kind |-> "result", by |-> worker]
  ELSE [kind |-> IF local = "ok" THEN "result" ELSE "error", by |-> MasterProcess]

\* routeToolCall for the tools of the model: a workspace-specific tool goes
\* to the target worker when there is one, every other call is executed
\* locally.
routeToolCall(tool, target, attempts, local) ==
  IF tool \in workspace_specific /\ target # NoTarget
  THEN callWorkerTool(target, attempts, local)
  ELSE [kind |-> IF local = "ok" THEN "result" ELSE "error", by |-> MasterProcess]

\* handleToolCall, from the call to the return or throw, with the log entry
\* pushed in its finally block.  `answers` is what the target's /tools route
\* does to successive attempts, `local` what executeLocalTool does if run.
handleToolCall(tool, params, answers, local) ==
  LET target == IF tool \in workspace_specific
                THEN findTargetWorker(registeredWorkers, workerOrder, params)
                ELSE NoTarget
      attempts == IF target = NoTarget THEN <<>> ELSE executeWithRetry(answers, 0)
      outcome == routeToolCall(tool, target, attempts, local)
  IN /\ target = NoTarget => answers = AlwaysOk
     /\ lastCall' = [tool |-> tool, params |-> params, target |-> target,
                     attempts |-> attempts,
                     local |-> IF Resolved(attempts) THEN "none" ELSE local,
                     kind |-> outcome.kind, by |-> outcome.by]
     /\ toolCallHistory' =
          Push(toolCallHistory,
               ToolCallLog(tool, params, outcome.kind = "error", now))
     /\ UNCHANGED registryVars

ToolCall ==
  /\ Len(toolCallHistory) < MaxCalls
  /\ \E tool \in Tools, params \in CallParams, answers \in WorkerAnswers :
       \E local \in LocalOutcomes(tool) :
         handleToolCall(tool, params, answers, local)
  /\ UNCHANGED lastAggregate
  /\ OnlyRouter

\* A call of the workspace-specific tool for a file, which the target
\* answers at once or never.
RoutedCall ==
  /\ Len(toolCallHistory) < MaxCalls
  /\ \E uri \in Uris,
        answers \in {AlwaysOk, [i \in 1..(maxRetries + 1) |-> "unreachable"]} :
       handleToolCall("get_diagnostics", [uri |-> uri, workspace |-> NoWorkspace],
                      answers, "ok")
  /\ UNCHANGED lastAggregate
  /\ OnlyRouter

\* An aggregated tool of TOOL_ROUTING_STRATEGY.
aggregated == {"get_open_files"}

NoAggregate == [workers |-> <<>>, branches |-> <<>>, local |-> "none", kind |-> "none"]

\* What the /tools routes of the workers do to the attempts of one fan-out.
BranchAnswers == [InstanceIds -> WorkerAnswers]

\* aggregateFromAllWorkers with Promise.all in place of the per-branch catch:
\* one rejected branch rejects the whole call.
aggregateFromAllWorkers_failFast(order, answersOf, local) ==
  LET branches == [i \in 1..Len(order) |-> executeWithRetry(answersOf[order[i]], 0)]
  IN [workers |-> order, branches |-> branches, local |-> local,
      kind |-> IF /\ \A i \in 1..Len(order) : Resolved(branches[i])
                  /\ local = "ok"
               THEN "result" ELSE "error"]

\* aggregateFromAllWorkers: one RemoteToolExecutor.executeTool per worker of
\* the Map, in its iteration order, and one executeLocalTool; a branch that
\* rejects yields null, the null results are filtered out and the call
\* throws when nothing is left, else it returns mergeToolResults.
aggregateFromAllWorkers(order, answersOf, local) ==
  LET branches == [i \in 1..Len(order) |-> executeWithRetry(answersOf[order[i]], 0)]
      validResults == {i \in 1..Len(order) : Resolved(branches[i])}
      localValid == IF local = "ok" THEN 1 ELSE 0
  IN [workers |-> order, branches |-> branches, local |-> local,
      kind |-> IF Cardinality(validResults) + localValid = 0
               THEN "error" ELSE "result"]

\* handleToolCall of an aggregated tool: routeToolCall passes it to
\* aggregateFromAllWorkers and the finally block pushes the log entry.
handleAggregatedCall(tool, answersOf, local) ==
  LET params == [uri |-> NoUri, workspace |-> NoWorkspace]
      outcome == aggregateFromAllWorkers(workerOrder, answersOf, local)
  IN /\ lastAggregate' = outcome
     /\ lastCall' = [tool |-> tool, params |-> params, target |-> NoTarget,
                     attempts |-> <<>>, local |-> local,
                     kind |-> outcome.kind, by |-> MasterProcess]
     /\ toolCallHistory' =
          Push(toolCallHistory,
               ToolCallLog(tool, params, outcome.kind = "error", now))
     /\ UNCHANGED registryVars

AggregatedCall ==
  /\ Len(toolCallHistory) < MaxCalls
  /\ \E tool \in aggregated, answersOf \in BranchAnswers :
       \E local \in LocalOutcomes(tool) :
         handleAggregatedCall(tool, answersOf, local)
  /\ OnlyRouter

\* RemoteToolExecutor step by step: every HTTP request of makeHttpRequest
\* and every sleep between two requests is a step of its own.
retryDelay == 1000

\* How makeHttpRequest settles: resolved with the result, or rejected for
\* success = false, a body that is not JSON, a socket error, or no answer
\* within the timeout.
RequestOutcomes == AttemptOutcomes \cup {"invalidJson", "timeout"}

NoExecution ==
  [pc |-> "idle", attempt |-> 0, outcomes |-> <<>>, slept |-> <<>>, error |-> "none"]

\* executeTool calls executeWithRetry(tool, params, 0), which sends the
\* first request.
executeTool ==
  /\ exec.pc = "idle"
  /\ exec' = [NoExecution EXCEPT !.pc = "request"]

\* executeWithRetry after makeHttpRequest has settled, with attempt = e.attempt.
afterRequest_retriesOnceMore(e, outcome) ==
  LET seen == [e EXCEPT !.outcomes = Append(e.outcomes, outcome)]
  IN IF outcome = "ok" THEN [seen EXCEPT !.pc = "resolved"]
     ELSE IF e.attempt <= maxRetries
          THEN [seen EXCEPT !.pc = "sleeping",
                            !.slept = Append(e.slept, retryDelay * 2 ^ e.attempt)]
          ELSE [seen EXCEPT !.pc = "rejected", !.error = outcome]

afterRequest(e, outcome) ==
  LET seen == [e EXCEPT !.outcomes = Append(e.outcomes, outcome)]
  IN IF outcome = "ok" THEN [seen EXCEPT !.pc = "resolved"]
     ELSE IF e.attempt < maxRetries
          THEN [seen EXCEPT !.pc = "sleeping",
                            !.slept = Append(e.slept, retryDelay * 2 ^ e.attempt)]
          ELSE [seen EXCEPT !.pc = "rejected", !.error = outcome]

makeHttpRequest(outcome) ==
  /\ exec.pc = "request"
  /\ exec' = afterRequest(exec, outcome)

\* await this.sleep(delay) is over: executeWithRetry(tool, params, attempt + 1).
sleep ==
  /\ exec.pc = "sleeping"
  /\ exec' = [exec EXCEPT !.pc = "request", !.attempt = exec.attempt + 1]

ToolExecutionStarted == executeTool /\ OnlyExecutor

HttpRequestSettled == (\E outcome \in RequestOutcomes : makeHttpRequest(outcome)) /\ OnlyExecutor

SleepEnded == sleep /\ OnlyExecutor

ExecutorIdle == exec = NoExecution

\* handleToolCall as the event loop runs it: the part before the await
\* (startTime = Date.now(), line 122) and the finally block that runs when
\* routeToolCall has settled are separate steps, and several invocations
\* can be between the two at once.
MaxInflight == 2
MaxStarted == 3

CallSlots == 1..MaxInflight

NoRunning == [pc |-> "idle", tool |-> "none", startTime |-> 0]

CallStarts(c, tool) ==
  /\ callsStarted < MaxStarted
  /\ running[c].pc = "idle"
  /\ running' = [running EXCEPT ![c] = [pc |-> "awaiting", tool |-> tool, startTime |-> now]]
  /\ callsStarted' = callsStarted + 1
  /\ UNCHANGED routerVars

\* The finally block: routeToolCall resolved (failed = FALSE) or threw.
CallCompletes(c, failed) ==
  /\ running[c].pc = "awaiting"
  /\ toolCallHistory' =
       Push(toolCallHistory,
            ToolCallLog(running[c].tool, [uri |-> NoUri, workspace |-> NoWorkspace],
                        failed, running[c].startTime))
  /\ running' = [running EXCEPT ![c] = NoRunning]
  /\ UNCHANGED <<lastCall, lastAggregate, callsStarted>>

CallStarted ==
  (\E c \in CallSlots : CallStarts(c, "get_diagnostics")) /\ OnlyCalls

CallCompleted ==
  (\E c \in CallSlots, failed \in BOOLEAN : CallCompletes(c, failed)) /\ OnlyCalls

CallsIdle ==
  /\ running = [c \in CallSlots |-> NoRunning]
  /\ callsStarted = 0

\* The history of a master that has completed n calls one after another,
\* all started at time 0, every second one failed.
PastHistory(n) ==
  [i \in 1..n |->
     ToolCallLog(IF i % 2 = 0 THEN "get_diagnostics" ELSE "get_file_content",
                 [uri |-> NoUri, workspace |-> NoWorkspace], i % 2 = 1, 0)]

PastLengths == {0, historyLimit - 1}

RouterIdle ==
  /\ lastCall = NoCall
  /\ toolCallHistory = <<>>
  /\ lastAggregate = NoAggregate
  /\ CallsIdle
  /\ ExecutorIdle
  /\ DetectorIdle
  /\ ShutdownIdle

(***************************************************************************)
(* worker.ts: the heartbeat loop of the workers against a master that      *)
(* keeps running.  Worker id registers as instanceId id with the workspace *)
(* WorkerPath(id); its requests are answered by the master's routes.       *)
(***************************************************************************)
NoRequest == [kind |-> "none", timestamp |-> 0, status |-> "active"]

\* registerWithMaster: the request built from this.workerInfo.
registerWithMaster(id) == [instanceId |-> id, workspacePath |-> WorkerPath(id)]

\* startHeartbeat / sendHeartbeat: the timer fires and the HeartbeatRequest
\* stamped with Date.now() leaves the worker.
sendHeartbeat(id) ==
  /\ heartbeatTimer[id]
  /\ pending[id].kind = "none"
  /\ \E status \in Statuses :
       pending' = [pending EXCEPT ![id] =
                     [kind |-> "heartbeat", timestamp |-> now, status |-> status]]
  /\ UNCHANGED <<heartbeatTimer, registryVars>>

\* The shouldReregister flag of handleHeartbeat's reply.
shouldReregister_never(instanceId) == FALSE

shouldReregister(instanceId) == instanceId \notin DOMAIN registeredWorkers

\* The heartbeat route serves the request; on shouldReregister a worker
\* that still runs calls registerWithMaster.
HeartbeatServed(id) ==
  /\ pending[id].kind = "heartbeat"
  /\ handleHeartbeat(id, [status |-> pending[id].status,
                          timestamp |-> pending[id].timestamp])
  /\ pending' = [pending EXCEPT ![id] =
                   IF shouldReregister(id) /\ heartbeatTimer[id]
                   THEN [NoRequest EXCEPT !.kind = "register"]
                   ELSE NoRequest]
  /\ UNCHANGED heartbeatTimer

\* The register route serves the worker's registration request.
RegisterServed(id) ==
  /\ pending[id].kind = "register"
  /\ registerWorker(registerWithMaster(id))
  /\ pending' = [pending EXCEPT ![id] = NoRequest]
  /\ UNCHANGED heartbeatTimer

\* The worker process is killed between two requests: no deregistration is
\* sent and no timer fires any more.  The clock of the model still has the
\* two steps ahead that carry the worker's record past the threshold.
WorkerKilled(id) ==
  /\ heartbeatTimer[id]
  /\ pending[id].kind = "none"
  /\ now + 2 * ClockStep <= MaxTicks * ClockStep
  /\ heartbeatTimer' = [heartbeatTimer EXCEPT ![id] = FALSE]
  /\ UNCHANGED <<pending, registryVars>>

LinkIdle ==
  /\ heartbeatTimer = [id \in InstanceIds |-> FALSE]
  /\ pending = [id \in InstanceIds |-> NoRequest]

\* Every worker has started: registered at time 0, heartbeat timer set.
LinkInit ==
  /\ heartbeatTimer = [id \in InstanceIds |-> TRUE]
  /\ pending = [id \in InstanceIds |-> NoRequest]

RegistryOfLink ==
  /\ registeredWorkers = [id \in InstanceIds |-> NewWorkerInfo(registerWithMaster(id), 0)]
  /\ workerOrder = [id \in InstanceIds |-> id]
  /\ workspaceRouting =
       [p \in {WorkerPath(id) : id \in InstanceIds} |->
          CHOOSE id \in InstanceIds :
            /\ WorkerPath(id) = p
            /\ \A other \in InstanceIds : WorkerPath(other) = p => other <= id]
  /\ now = 0
  /\ lastOp = [op |-> "register", id |-> MaxInstances, success |-> TRUE]
  /\ roundTrip = NoRoundTrip

HeartbeatSent == (\E id \in InstanceIds : sendHeartbeat(id)) /\ OnlyLink

HeartbeatAnswered == (\E id \in InstanceIds : HeartbeatServed(id)) /\ OnlyLink

Reregistered == (\E id \in InstanceIds : RegisterServed(id)) /\ OnlyLink

Killed == (\E id \in InstanceIds : WorkerKilled(id)) /\ OnlyLink

(***************************************************************************)
(* mcp-server.ts, coordinator.ts: extension hosts that run startMcpServer. *)
(* Each creates its coordinator (createCoordinator, detectMode), starts    *)
(* it, completes its Express app and listens.  The registry variables are  *)
(* those of the master that listens on the master port.                    *)
(***************************************************************************)
MaxProcs == 2

masterPort == 9100
maxRegistrationRetries == 5

Procs == 1..MaxProcs
workerPortRange == <<9101, 9199>>

\* The ids createInstanceId can draw; randomUUID never repeats one.
Uuids == 1..(2 * MaxProcs)
NoId == 0
NoPort == 0

Modes == {"master", "worker", "standalone"}
Configs == [enabled : BOOLEAN, mode : {"auto"} \cup Modes]

NoProc ==
  [pc |-> "off", config |-> [enabled |-> TRUE, mode |-> "auto"],
   probe |-> "none", detected |-> "none", mode |-> "none", instanceId |-> NoId, infoId |-> NoId,
   localPort |-> NoPort, port |-> NoPort, stack |-> <<>>,
   reg |-> "none", retries |-> 0, roleChecked |-> FALSE]

UsedIds == {proc[q].instanceId : q \in Procs} \cup {proc[q].infoId : q \in Procs}

BoundPorts == ({proc[q].port : q \in Procs} \cup {proc[q].localPort : q \in Procs}) \ {NoPort}

\* The host whose Express app listens on the port, 0 when there is none.
Listener(port) ==
  IF \E q \in Procs : proc[q].port = port
  THEN CHOOSE q \in Procs : proc[q].port = port
  ELSE 0

\* Position of a layer in the middleware stack of an app, 0 when absent.
Layer(stack, name) ==
  IF \E i \in 1..Len(stack) : stack[i] = name
  THEN CHOOSE i \in 1..Len(stack) : stack[i] = name
  ELSE 0

\* Express runs the layers in the order they were added: a route handler
\* sees a parsed req.body only when express.json() was added before it.
BodyParsed(stack, route) ==
  /\ Layer(stack, "json") > 0
  /\ Layer(stack, "json") < Layer(stack, route)

\* CoordinationDetector.checkMasterHealth against the master port: no
\* listener is UNREACHABLE, a 200 from /coordination/health is HEALTHY or,
\* after more than 2 s, DEGRADED, and any other status is DEGRADED.
HealthAnswers ==
  IF Listener(masterPort) = 0 THEN {"unreachable"}
  ELSE IF Layer(proc[Listener(masterPort)].stack, "coordination") > 0
  THEN {"healthy", "degraded"}
  ELSE {"degraded"}

\* detectMode; `elect` is what shouldInitiateElectionForDegradedMaster
\* answers when it is asked.
detectMode(config, probe, elect) ==
  IF config.mode # "auto" THEN config.mode
  ELSE IF ~config.enabled THEN "standalone"
  ELSE IF probe = "healthy" THEN "worker"
  ELSE IF probe = "unreachable" THEN "master"
  ELSE IF elect THEN "master" ELSE "worker"

\* detectMode step by step, for a configuration that is enabled and leaves
\* the mode to be detected: the first probe, the probes of
\* shouldInitiateElectionForDegradedMaster, the workspace score, the random
\* wait and the last probe are steps of their own.
maxChecks == 3
scoreThreshold == 50

MasterStatuses == {"healthy", "degraded", "unreachable"}

AutoConfig == [enabled |-> TRUE, mode |-> "auto"]

\* Scores below and above the threshold; calculateLocalWorkspaceScore
\* answers between 0 and 90.
LocalScores == {40, 60}

CeilDiv(a, b) == (a + b - 1) \div b

failureCount(checks) ==
  Cardinality({i \in 1..Len(checks) : checks[i] \in {"degraded", "unreachable"}})

\* Math.ceil(maxChecks * 0.67): the product is 2.0100000000000002.
consistentFailure(checks) == failureCount(checks) >= CeilDiv(maxChecks * 67, 100)

Decided(d, elect) ==
  [d EXCEPT !.pc = "done", !.result = detectMode(AutoConfig, d.first, elect)]

FirstProbe(status) ==
  /\ detector.pc = "idle"
  /\ detector' =
       IF status = "degraded"
       THEN [detector EXCEPT !.pc = "checking", !.first = status]
       ELSE Decided([detector EXCEPT !.first = status], FALSE)

\* One pass of the loop of shouldInitiateElectionForDegradedMaster and,
\* after the last one, the test of consistentFailure.
StabilityProbe(status) ==
  /\ detector.pc = "checking"
  /\ LET checks == Append(detector.checks, status)
         seen == [detector EXCEPT !.checks = checks]
     IN detector' =
          IF Len(checks) < maxChecks THEN seen
          ELSE IF consistentFailure(checks) THEN Decided(seen, TRUE)
          ELSE [seen EXCEPT !.pc = "scoring"]

\* Factor 2: a score under the threshold answers false at once; otherwise
\* the random wait is started.
LocalScore(score) ==
  /\ detector.pc = "scoring"
  /\ detector' = IF score < scoreThreshold THEN Decided(detector, FALSE)
                 ELSE [detector EXCEPT !.pc = "backoff"]

\* The timer of Math.random() * 2000 ms fires.
RandomDelay ==
  /\ detector.pc = "backoff"
  /\ detector' = [detector EXCEPT !.pc = "final", !.waited = TRUE]

FinalProbe(status) ==
  /\ detector.pc = "final"
  /\ detector' = Decided([detector EXCEPT !.final = status],
                         status \in {"degraded", "unreachable"})

FirstProbed == (\E status \in MasterStatuses : FirstProbe(status)) /\ OnlyDetector

StabilityProbed == (\E status \in MasterStatuses : StabilityProbe(status)) /\ OnlyDetector

Scored == (\E score \in LocalScores : LocalScore(score)) /\ OnlyDetector

RandomDelayEnded == RandomDelay /\ OnlyDetector

FinalProbed == (\E status \in MasterStatuses : FinalProbe(status)) /\ OnlyDetector

\* findAvailablePort: the lowest port of the range nobody is bound to.
findAvailablePort(startPort, endPort) ==
  IF \E x \in startPort..endPort : x \notin BoundPorts
  THEN CHOOSE x \in startPort..endPort :
         /\ x \notin BoundPorts
         /\ \A y \in startPort..(x - 1) : y \in BoundPorts
  ELSE NoPort

\* createCoordinator: detectMode, then the coordinator of that mode, whose
\* constructor draws the instanceId.
createCoordinator(p, config, probe, elect, id) ==
  /\ proc[p].pc = "off"
  /\ id \notin UsedIds
  /\ proc' = [proc EXCEPT ![p] =
       [NoProc EXCEPT !.pc = "created", !.config = config, !.probe = probe,
                      !.detected = detectMode(config, probe, elect),
                      !.mode = detectMode(config, probe, elect),
                      !.instanceId = id]]
  /\ UNCHANGED registryVars

\* MasterCoordinator.start with the app of startMcpServer: setExpressApp,
\* then setupCoordinationRoutes on that app, which has no layer yet.
MasterStart(p) ==
  /\ proc[p].pc = "created"
  /\ proc[p].mode = "master"
  /\ proc' = [proc EXCEPT ![p].pc = "started",
                          ![p].stack = Append(proc[p].stack, "coordination")]
  /\ UNCHANGED registryVars

\* WorkerCoordinator.start up to its await of registerWithMaster: the local
\* port, createWorkerInfo with an instanceId of its own, the local server
\* and the registration request.
WorkerStart(p, id) ==
  /\ proc[p].pc = "created"
  /\ proc[p].mode = "worker"
  /\ id \notin UsedIds
  /\ findAvailablePort(workerPortRange[1], workerPortRange[2]) # NoPort
  /\ proc' = [proc EXCEPT ![p].pc = "starting",
                          ![p].infoId = id,
                          ![p].localPort =
                             findAvailablePort(workerPortRange[1], workerPortRange[2]),
                          ![p].reg = "pending"]
  /\ UNCHANGED registryVars

\* StandaloneCoordinator.start does nothing.
StandaloneStart(p) ==
  /\ proc[p].pc = "created"
  /\ proc[p].mode = "standalone"
  /\ proc' = [proc EXCEPT ![p].pc = "started"]
  /\ UNCHANGED registryVars

\* The registration request of worker p as registerWithMaster builds it.
JoinRequest(p) ==
  [instanceId |-> proc[p].infoId, workspacePath |-> WorkerPath(p),
   port |-> proc[p].localPort]

\* What registerWithMaster does with the answer: on failure it schedules
\* the next try while registrationRetries < maxRegistrationRetries and
\* falls back to standalone mode after that; start() goes on after the
\* first answer either way.
registrationAnswer(p, success) ==
  LET started == IF proc[p].pc = "starting" THEN "started" ELSE proc[p].pc
  IN IF success
     THEN [proc EXCEPT ![p].reg = "registered", ![p].retries = 0, ![p].pc = started]
     ELSE IF proc[p].retries < maxRegistrationRetries
     THEN [proc EXCEPT ![p].retries = proc[p].retries + 1, ![p].pc = started]
     ELSE [proc EXCEPT ![p].reg = "gaveUp", ![p].retries = 0,
                       ![p].mode = "standalone", ![p].pc = started]

\* POST /coordination/workers/register sent to the master port and served
\* by the app that listens there: the route hands req.body to
\* registerWorker, which throws on an undefined body and is answered 400;
\* without a listener or without the route the request fails.
RegistrationServed(p) ==
  LET m == Listener(masterPort)
      served == /\ m # 0
                /\ Layer(proc[m].stack, "coordination") > 0
                /\ BodyParsed(proc[m].stack, "coordination")
  IN /\ proc[p].reg = "pending"
     /\ proc' = registrationAnswer(p, served)
     /\ IF served
        THEN registerWorker(JoinRequest(p))
        ELSE IF m # 0 /\ Layer(proc[m].stack, "coordination") > 0
        THEN /\ lastOp' = [op |-> "register", id |-> Undefined, success |-> FALSE]
             /\ roundTrip' = NoRoundTrip
             /\ UNCHANGED <<registeredWorkers, workerOrder, workspaceRouting, now>>
        ELSE UNCHANGED registryVars

\* startMcpServer after coordinator.start(): express.json(), cors and the
\* MCP routes are added to the app, and the app listens on the first free
\* port from 9100 on, the default of both masterPort and server.port.
Listen(p) ==
  /\ proc[p].pc = "started"
  /\ findAvailablePort(masterPort, workerPortRange[2]) # NoPort
  /\ proc' = [proc EXCEPT ![p].pc = "listening",
                          ![p].stack = proc[p].stack \o <<"json", "cors", "mcp", "health">>,
                          ![p].port = findAvailablePort(masterPort, workerPortRange[2])]
  /\ UNCHANGED registryVars

\* validateMasterRole: checkForOtherMaster answers exists = false, so the
\* comparison of the instanceIds and stepDownAsMaster are not reached.
checkForOtherMaster(p) == [exists |-> FALSE, instanceId |-> NoId]

validateMasterRole(p) ==
  /\ proc[p].pc = "listening"
  /\ proc[p].mode = "master"
  /\ ~proc[p].roleChecked
  /\ IF /\ checkForOtherMaster(p).exists
        /\ proc[p].instanceId > checkForOtherMaster(p).instanceId
     THEN proc' = [proc EXCEPT ![p].roleChecked = TRUE, ![p].mode = "worker"]
     ELSE proc' = [proc EXCEPT ![p].roleChecked = TRUE]
  /\ UNCHANGED registryVars

(***************************************************************************)
(* worker.ts: one worker and a master that stays healthy, request by       *)
(* request.  registrationRetries is one counter for every caller of        *)
(* registerWithMaster: start(), the retry timers and sendHeartbeat, which  *)
(* registers again when the master answers shouldReregister.               *)
(***************************************************************************)
MaxRegistrations == 8

NoJoiner ==
  [pc |-> "off", mode |-> "worker", registrationRetries |-> 0, retryTimers |-> 0,
   requests |-> 0, attempts |-> 0, delay |-> 0, heartbeatTimer |-> FALSE,
   masterHealthTimer |-> FALSE, localServer |-> FALSE, registered |-> FALSE,
   refused |-> FALSE]

\* registerWithMaster up to its await: the request is sent.
Requested(j) ==
  [j EXCEPT !.requests = j.requests + 1, !.attempts = j.attempts + 1]

\* start() up to its await of registerWithMaster.
JoinerStarts ==
  /\ joiner.pc = "off"
  /\ joiner' = Requested([joiner EXCEPT !.pc = "starting", !.localServer = TRUE])

\* fallbackToStandaloneMode with stopWorkerOperations: the timers are
\* cleared, the local server is kept, pending retry timers are not touched.
fallbackToStandaloneMode(j) ==
  [j EXCEPT !.mode = "standalone", !.heartbeatTimer = FALSE, !.masterHealthTimer = FALSE,
            !.registrationRetries = 0]

\* registerWithMaster after the answer.
registered(j, success) ==
  IF success THEN [j EXCEPT !.registrationRetries = 0, !.registered = TRUE]
  ELSE IF j.registrationRetries < maxRegistrationRetries
  THEN [j EXCEPT !.registrationRetries = j.registrationRetries + 1,
                 !.retryTimers = j.retryTimers + 1,
                 !.delay = 2 ^ (j.registrationRetries + 1) * 1000,
                 !.refused = TRUE]
  ELSE [fallbackToStandaloneMode(j) EXCEPT !.refused = TRUE]

\* The answer to a registration request; start() goes on after the answer
\* to the first one and sets both timers.
JoinerAnswered(success) ==
  /\ joiner.requests > 0
  /\ LET j == registered([joiner EXCEPT !.requests = joiner.requests - 1], success)
     IN joiner' = IF joiner.pc = "starting"
                  THEN [j EXCEPT !.pc = "started", !.heartbeatTimer = TRUE,
                                 !.masterHealthTimer = TRUE]
                  ELSE j

\* A retry timer fires.
JoinerRetries ==
  /\ joiner.retryTimers > 0
  /\ joiner.attempts < MaxRegistrations
  /\ joiner' = Requested([joiner EXCEPT !.retryTimers = joiner.retryTimers - 1])

\* sendHeartbeat: the master answers shouldReregister for a worker it does
\* not list, and the worker calls registerWithMaster.
JoinerHeartbeat ==
  /\ joiner.heartbeatTimer
  /\ ~joiner.registered
  /\ joiner.attempts < MaxRegistrations
  /\ joiner' = Requested(joiner)

JoinerIdle == joiner = NoJoiner

JoinerStarted == JoinerStarts /\ OnlyJoin

RegistrationAnsweredJoiner == (\E success \in BOOLEAN : JoinerAnswered(success)) /\ OnlyJoin

RetryTimerFired == JoinerRetries /\ OnlyJoin

HeartbeatReregistered == JoinerHeartbeat /\ OnlyJoin

(***************************************************************************)
(* worker.ts: the role transitions of one worker.  becomeMaster is         *)
(* requested by an election that was won, by the catch of                  *)
(* initiateElection and by the timeout of waitForNewMaster;                *)
(* fallbackToStandaloneMode by the registration that fails with the        *)
(* retries used up.  becomeMaster awaits stop(), which waits for the       *)
(* DELETE sent to the master; the fallback awaits stopWorkerOperations,    *)
(* which has no await of its own, so that no timer and no answer comes in  *)
(* between its two halves.                                                 *)
(***************************************************************************)
MaxWaits == 2

NoRole ==
  [pc |-> "off", mode |-> "worker", workerInfo |-> FALSE, becomingMaster |-> FALSE,
   stopping |-> FALSE, bodies |-> 0, registrationRetries |-> 0,
   retryTimers |-> 0, requests |-> 0, attempts |-> 0, electing |-> FALSE, waits |-> 0,
   overlapped |-> FALSE]

\* becomeMaster up to its await of stop().
becomeMasterOnce(r) ==
  IF r.becomingMaster THEN r
  ELSE [r EXCEPT !.becomingMaster = TRUE, !.stopping = TRUE, !.bodies = r.bodies + 1]

\* fallbackToStandaloneMode: no flag is read and none is set.
fallbackRuns(r) ==
  [r EXCEPT !.mode = "standalone", !.registrationRetries = 0,
            !.overlapped = r.overlapped \/ r.stopping]

\* registerWithMaster up to its await; it throws before the request when
\* stop() has cleared workerInfo.
roleRegisters(r) ==
  IF r.workerInfo /\ r.attempts < MaxRegistrations
  THEN [r EXCEPT !.requests = r.requests + 1, !.attempts = r.attempts + 1]
  ELSE r

\* start() up to its await of registerWithMaster.
RoleStarts ==
  /\ role.pc = "off"
  /\ role' = roleRegisters([role EXCEPT !.pc = "worker", !.workerInfo = TRUE])

\* registerWithMaster after the answer.
RoleAnswered(success) ==
  /\ role.requests > 0
  /\ LET r == [role EXCEPT !.requests = role.requests - 1]
     IN role' = IF success THEN [r EXCEPT !.registrationRetries = 0]
                ELSE IF r.registrationRetries < maxRegistrationRetries
                THEN [r EXCEPT !.registrationRetries = r.registrationRetries + 1,
                               !.retryTimers = r.retryTimers + 1]
                ELSE fallbackRuns(r)

\* A retry timer fires.
RoleRetries ==
  /\ role.retryTimers > 0
  /\ role' = roleRegisters([role EXCEPT !.retryTimers = role.retryTimers - 1])

\* handleMasterFailure with three failed probes counted, and
\* initiateElection passing its guard; the fallback has cleared the timer
\* that counts.
RoleElectionStarts ==
  /\ role.pc = "worker"
  /\ role.mode = "worker"
  /\ ~role.becomingMaster
  /\ ~role.electing
  /\ role' = [role EXCEPT !.electing = TRUE]

\* initiateElection after startElection has settled.
RoleElectionEnds(outcome) ==
  /\ role.electing
  /\ LET r == [role EXCEPT !.electing = FALSE]
     IN role' = CASE outcome = "won" -> becomeMasterOnce(r)
                  [] outcome = "lost" /\ r.waits < MaxWaits -> [r EXCEPT !.waits = r.waits + 1]
                  [] outcome = "lost" /\ r.waits >= MaxWaits -> r
                  [] outcome = "failed" -> becomeMasterOnce(r)

\* handleElectionMessage, MASTER_ELECTED naming another worker.
RoleMasterElected ==
  /\ role.pc = "worker"
  /\ role.waits < MaxWaits
  /\ role' = [role EXCEPT !.waits = role.waits + 1]

\* waitForNewMaster: the loop ends on a healthy master with a registration,
\* after 30 s with becomeMaster.
RoleWaitEnds(healthy) ==
  /\ role.waits > 0
  /\ LET r == [role EXCEPT !.waits = role.waits - 1]
     IN role' = IF healthy THEN roleRegisters(r) ELSE becomeMasterOnce(r)

\* becomeMaster after stop() has settled.
RoleStopEnds ==
  /\ role.stopping
  /\ role' = [role EXCEPT !.stopping = FALSE, !.workerInfo = FALSE, !.mode = "master"]

RoleIdle == role = NoRole

RoleStarted == RoleStarts /\ OnlyRole

RoleRegistrationAnswered == (\E success \in BOOLEAN : RoleAnswered(success)) /\ OnlyRole

RoleRetryTimerFired == RoleRetries /\ OnlyRole

RoleElectionStarted == RoleElectionStarts /\ OnlyRole

RoleElectionEnded ==
  (\E outcome \in {"won", "lost", "failed"} : RoleElectionEnds(outcome)) /\ OnlyRole

RoleMasterElectedReceived == RoleMasterElected /\ OnlyRole

RoleWaitEnded == (\E healthy \in BOOLEAN : RoleWaitEnds(healthy)) /\ OnlyRole

RoleStopEnded == RoleStopEnds /\ OnlyRole

(***************************************************************************)
(* worker.ts and election.ts: every live worker runs one election after    *)
(* the master has failed.  All of them are up for the whole time, answer   *)
(* every request and give the same candidate information to every asker,   *)
(* so that the elections differ in nothing but the worker that runs them.  *)
(***************************************************************************)
MaxPollWorkers == 3
PollWorkers == 1..MaxPollWorkers

PollInfoId(w) == MaxPollWorkers + w
PollWorkerOfKey(k) == IF k > MaxPollWorkers THEN k - MaxPollWorkers ELSE k

NoPoll ==
  [master |-> "healthy", live |-> {}, score |-> [w \in PollWorkers |-> 53],
   run |-> [w \in PollWorkers |-> [pc |-> "idle", known |-> <<>>, winner |-> NoId]]]

\* The master fails with a set of workers registered and running.
PollMasterFails(live, score, status) ==
  /\ poll.master = "healthy"
  /\ poll' = [poll EXCEPT !.master = status, !.live = live, !.score = score]

\* discoverOtherWorkers: the listing of a master that still answers, which
\* names the workers by the ids of their WorkerInfo, else the port scan,
\* which skips the own port; then the filter on the coordinator's id.
pollDiscovered(w, fromMaster) ==
  LET listed == IF fromMaster THEN {PollInfoId(v) : v \in poll.live}
                ELSE poll.live \ {w}
  IN KeyList({k \in listed : k # w})

PollDiscovers(w, fromMaster) ==
  /\ poll.master # "healthy"
  /\ w \in poll.live
  /\ poll.run[w].pc = "idle"
  /\ fromMaster => poll.master = "degraded"
  /\ poll' = [poll EXCEPT !.run[w] = [pc |-> "collecting",
                                      known |-> pollDiscovered(w, fromMaster),
                                      winner |-> NoId]]

\* createCandidateInfo of worker v.
pollCandidate(v) ==
  [instanceId |-> v, workspaceScore |-> poll.score[v], uptime |-> 0, resourceUsage |-> 20]

\* startElection with every candidate request answered.
PollElects(w) ==
  /\ poll.run[w].pc = "collecting"
  /\ LET ws == poll.run[w].known
         replies == [i \in 1..Len(ws) |-> Answered(pollCandidate(PollWorkerOfKey(ws[i])))]
         cands == StoreReplies(<<>>, ws, replies, 1)
     IN poll' = [poll EXCEPT !.run[w] =
                   IF validateQuorum(cands, quorumSize, Len(ws)) /\ Len(cands) > 0
                   THEN [pc |-> "returned", known |-> ws,
                         winner |-> calculateElectionWinner(cands).instanceId]
                   ELSE [pc |-> "failed", known |-> ws, winner |-> NoId]]

PollIdle == poll = NoPoll

PollMasterFailed ==
  /\ \E live \in SUBSET PollWorkers, score \in [PollWorkers -> WorkspaceScores],
        status \in {"degraded", "dead"} :
       /\ Cardinality(live) >= 2
       /\ PollMasterFails(live, score, status)
  /\ OnlyPoll

PollDiscoveryDone ==
  (\E w \in PollWorkers, fromMaster \in BOOLEAN : PollDiscovers(w, fromMaster)) /\ OnlyPoll

PollElected == (\E w \in PollWorkers : PollElects(w)) /\ OnlyPoll

(***************************************************************************)
(* coordinator.ts and worker.ts: workers starting at the same time on one  *)
(* host.  isPortAvailable binds a test server and closes it again;         *)
(* start() binds the local server to the port found only later, after      *)
(* createWorkerInfo, in startLocalServer.                                  *)
(***************************************************************************)
MaxStarters == 3
MaxScan == 3
Starters == 1..MaxStarters
ScanRange == workerPortRange[1]..(workerPortRange[1] + MaxScan - 1)

NoStarter == [pc |-> "off", port |-> NoPort]

\* The ports a listen() call finds in use: local servers and test servers.
PortsInUse == {starter[v].port : v \in {u \in Starters : starter[u].pc \in {"probing", "listening"}}}

\* start() calls findAvailablePort, which begins at the first port.
StarterStarts(w) ==
  /\ starter[w].pc = "off"
  /\ starter' = [starter EXCEPT ![w] = [pc |-> "scanning", port |-> workerPortRange[1]]]

\* isPortAvailable: listen on the port; an error means the next port, or
\* the throw of findAvailablePort after the last one.
isPortAvailable(w) ==
  /\ starter[w].pc = "scanning"
  /\ starter' = [starter EXCEPT ![w] =
       IF starter[w].port \notin PortsInUse
       THEN [pc |-> "probing", port |-> starter[w].port]
       ELSE IF starter[w].port + 1 \in ScanRange
       THEN [pc |-> "scanning", port |-> starter[w].port + 1]
       ELSE [pc |-> "failed", port |-> NoPort]]

\* The test server is closed and findAvailablePort returns the port.
ProbeCloses(w) ==
  /\ starter[w].pc = "probing"
  /\ starter' = [starter EXCEPT ![w].pc = "found"]

\* startLocalServer: listen on the port found; the error event rejects and
\* start() throws.
startLocalServer(w) ==
  /\ starter[w].pc = "found"
  /\ starter' = [starter EXCEPT ![w].pc =
       IF starter[w].port \in PortsInUse THEN "failed" ELSE "listening"]

PortIdle == starter = [w \in Starters |-> NoStarter]

StarterStarted == (\E w \in Starters : StarterStarts(w)) /\ OnlyPort

PortProbed == (\E w \in Starters : isPortAvailable(w)) /\ OnlyPort

ProbeClosed == (\E w \in Starters : ProbeCloses(w)) /\ OnlyPort

LocalServerStarted == (\E w \in Starters : startLocalServer(w)) /\ OnlyPort

StartIdle ==
  /\ proc = [p \in Procs |-> NoProc]
  /\ PortIdle
  /\ PollIdle
  /\ JoinerIdle
  /\ RoleIdle

HostStarts ==
  /\ \E p \in Procs, config \in Configs, elect \in BOOLEAN, id \in Uuids :
       \E probe \in HealthAnswers :
         createCoordinator(p, config, probe, elect, id)
  /\ OnlyStart

MasterStarted == (\E p \in Procs : MasterStart(p)) /\ OnlyStart

WorkerStarted == (\E p \in Procs, id \in Uuids : WorkerStart(p, id)) /\ OnlyStart

StandaloneStarted == (\E p \in Procs : StandaloneStart(p)) /\ OnlyStart

RegistrationAnswered == (\E p \in Procs : RegistrationServed(p)) /\ OnlyStart

Listening == (\E p \in Procs : Listen(p)) /\ OnlyStart

RoleValidated == (\E p \in Procs : validateMasterRole(p)) /\ OnlyStart

vars == <<registryVars, electionVars, failoverVars, routerVars, linkVars, startVars,
          backgroundVars, callVars, executorVars, shutdownVars, detectorVars,
          watchVars, joinVars, roleVars, pollVars, portVars>>

Init == RegistryInit /\ ElectionIdle /\ FailoverIdle /\ RouterIdle /\ LinkIdle /\ StartIdle

Next == Register \/ Deregister \/ Heartbeat \/ Reap \/ Tick

Spec == Init /\ [][Next]_vars

InitElection ==
  RegistryInit /\ ElectionInit /\ FailoverIdle /\ RouterIdle /\ LinkIdle /\ StartIdle

NextElection ==
  \/ StartElection
  \/ ReplyArrives
  \/ ReplyFails
  \/ Collected
  \/ TimeoutFires
  \/ Broadcast
  \/ Abort

SpecElection == InitElection /\ [][NextElection]_vars

InitWinner ==
  RegistryInit /\ WinnerInit /\ FailoverIdle /\ RouterIdle /\ LinkIdle /\ StartIdle

NextWinner == CalculateWinner

SpecWinner == InitWinner /\ [][NextWinner]_vars

InitFailover ==
  RegistryStarted /\ ElectionIdle /\ FailoverInit /\ RouterIdle /\ LinkIdle /\ StartIdle

NextFailover ==
  \/ HealthTick
  \/ Discovered
  \/ ElectionFailed
  \/ ElectionReturned
  \/ WaitTimeout
  \/ Stopped
  \/ MasterDegrades
  \/ MasterKilled

SpecFailover == InitFailover /\ [][NextFailover]_vars

\* The health timer keeps firing while it is set, and every pending request
\* and wait ends: discovery, candidate collection (bounded by the election
\* timeout), the 30 s wait and the DELETE sent by stop().
FailoverFairness ==
  /\ \A w \in FWorkers : WF_vars(HealthCheck(w) /\ OnlyFailover)
  /\ \A w \in FWorkers, a \in AttemptIds :
       /\ WF_vars(DiscoverDone(w, a) /\ OnlyFailover)
       /\ WF_vars((ElectionFails(w, a) \/ ElectionReturns(w, a)) /\ OnlyFailover)
       /\ WF_vars(WaitTimesOut(w, a) /\ OnlyFailover)
       /\ WF_vars(StopDone(w, a) /\ OnlyFailover)

SpecFailoverFair == SpecFailover /\ FailoverFairness

NextBackground ==
  \/ HealthTick
  \/ Discovered
  \/ ElectionFailed
  \/ ElectionReturned
  \/ WaitTimeout
  \/ Stopped
  \/ MasterDegrades
  \/ MasterRecovered
  \/ WaitSawMaster

SpecBackground == InitFailover /\ [][NextBackground]_vars

NextWatch ==
  \/ HealthProbed
  \/ MasterShutdownReceived
  \/ ShutdownDelayEnded
  \/ Discovered
  \/ ElectionFailed
  \/ Stopped
  \/ MasterKilled

SpecWatch == InitFailover /\ [][NextWatch]_vars

NextRegistration == PostRegistration \/ Deregister

SpecRegistration == Init /\ [][NextRegistration]_vars

NextRouter == Register \/ Deregister \/ ToolCall

SpecRouter == Init /\ [][NextRouter]_vars

NextFrame ==
  \/ Register
  \/ Deregister
  \/ Heartbeat
  \/ Reap
  \/ Tick
  \/ RoutedCall

SpecFrame == Init /\ [][NextFrame]_vars

InitHistory ==
  /\ RegistryInit /\ ElectionIdle /\ FailoverIdle /\ LinkIdle /\ StartIdle
  /\ lastCall = NoCall
  /\ lastAggregate = NoAggregate
  /\ CallsIdle
  /\ ExecutorIdle
  /\ DetectorIdle
  /\ ShutdownIdle
  /\ \E n \in PastLengths : toolCallHistory = PastHistory(n)

NextHistory == Tick \/ CallStarted \/ CallCompleted

SpecHistory == InitHistory /\ [][NextHistory]_vars

InitShutdown ==
  /\ RegistryInit /\ ElectionIdle /\ FailoverIdle /\ LinkIdle /\ StartIdle
  /\ lastCall = NoCall
  /\ toolCallHistory = <<>>
  /\ lastAggregate = NoAggregate
  /\ CallsIdle
  /\ ExecutorIdle
  /\ DetectorIdle
  /\ \E externalApp \in BOOLEAN : shutdown = Running(externalApp)

NextShutdown ==
  \/ RegisterWhileOpen
  \/ Tick
  \/ ReaperTick
  \/ StopCalled
  \/ ShutdownNotified
  \/ DeadlinePassed
  \/ StopReturned
  \/ HostServerClosed

SpecShutdown == InitShutdown /\ [][NextShutdown]_vars

\* Timers fire and a settled await is resumed; a worker need not answer.
ShutdownFairness ==
  /\ WF_vars(DeadlinePassed)
  /\ WF_vars(StopReturned)
  /\ WF_vars(HostServerClosed)

SpecShutdownFair == SpecShutdown /\ ShutdownFairness

NextDetector ==
  \/ FirstProbed
  \/ StabilityProbed
  \/ Scored
  \/ RandomDelayEnded
  \/ FinalProbed

SpecDetector == Init /\ [][NextDetector]_vars

NextJoin ==
  \/ JoinerStarted
  \/ RegistrationAnsweredJoiner
  \/ RetryTimerFired
  \/ HeartbeatReregistered

SpecJoin == Init /\ [][NextJoin]_vars

NextRole ==
  \/ RoleStarted
  \/ RoleRegistrationAnswered
  \/ RoleRetryTimerFired
  \/ RoleElectionStarted
  \/ RoleElectionEnded
  \/ RoleMasterElectedReceived
  \/ RoleWaitEnded
  \/ RoleStopEnded

SpecRole == Init /\ [][NextRole]_vars

NextPoll == PollMasterFailed \/ PollDiscoveryDone \/ PollElected

SpecPoll == Init /\ [][NextPoll]_vars

NextPort == StarterStarted \/ PortProbed \/ ProbeClosed \/ LocalServerStarted

SpecPort == Init /\ [][NextPort]_vars

NextExecutor == ToolExecutionStarted \/ HttpRequestSettled \/ SleepEnded

SpecExecutor == Init /\ [][NextExecutor]_vars

NextAggregate == Register \/ Deregister \/ AggregatedCall

SpecAggregate == Init /\ [][NextAggregate]_vars

InitLink ==
  RegistryOfLink /\ ElectionIdle /\ FailoverIdle /\ RouterIdle /\ LinkInit /\ StartIdle

NextLink ==
  \/ HeartbeatSent
  \/ HeartbeatAnswered
  \/ Reregistered
  \/ Killed
  \/ Deregister
  \/ Reap
  \/ Tick

SpecLink == InitLink /\ [][NextLink]_vars

\* The master keeps running: its clock advances, its reaper timer fires and
\* its routes answer every request; the heartbeat timer of a running worker
\* keeps firing.
LinkFairness ==
  /\ WF_vars(Tick)
  /\ WF_vars(Reap)
  /\ \A id \in InstanceIds :
       /\ WF_vars(sendHeartbeat(id) /\ OnlyLink)
       /\ WF_vars(HeartbeatServed(id) /\ OnlyLink)
       /\ WF_vars(RegisterServed(id) /\ OnlyLink)

SpecLinkFair == SpecLink /\ LinkFairness

NextStartup ==
  \/ HostStarts
  \/ MasterStarted
  \/ WorkerStarted
  \/ StandaloneStarted
  \/ RegistrationAnswered
  \/ Listening
  \/ RoleValidated

SpecStartup == Init /\ [][NextStartup]_vars

\* Every host that was started goes on: its coordinator starts, its
\* requests are answered, its app listens, and a master validates its role.
StartupFairness ==
  \A p \in Procs :
    /\ WF_vars((MasterStart(p) \/ StandaloneStart(p)) /\ OnlyStart)
    /\ WF_vars((\E id \in Uuids : WorkerStart(p, id)) /\ OnlyStart)
    /\ WF_vars(RegistrationServed(p) /\ OnlyStart)
    /\ WF_vars(Listen(p) /\ OnlyStart)
    /\ WF_vars(validateMasterRole(p) /\ OnlyStart)

SpecStartupFair == SpecStartup /\ StartupFairness

(***************************************************************************)
(* C1 (invariant M1): in every state reachable by register, deregister,    *)
(* heartbeat and reap, every value of workspaceRouting is a key of         *)
(* registeredWorkers.                                                      *)
(***************************************************************************)
RoutingValuesRegistered ==
  \A p \in DOMAIN workspaceRouting :
    workspaceRouting[p] \in DOMAIN registeredWorkers

\* A worker re-registered under a second path and another worker then took
\* over one of its paths: routing holds entries of both after the takeover.
RoutingSharedPathReached ==
  /\ lastOp.op = "register"
  /\ Cardinality(DOMAIN registeredWorkers) = 2
  /\ Cardinality(DOMAIN workspaceRouting) = 2
  /\ \E id \in DOMAIN registeredWorkers :
       workspaceRouting[registeredWorkers[id].workspacePath] # id

(***************************************************************************)
(* C2: of the workers that had not become master when the master was       *)
(* killed, at most one becomes master afterwards, whichever path leads it  *)
(* to becomeMaster.                                                        *)
(***************************************************************************)
Promoted == {w \in FWorkers : becameMaster[w] # "no"}

AtMostOneWorkerBecomesMaster ==
  master = "dead" => Cardinality(Promoted \ promotedAtKill) <= 1

ElectionWinnerIsMaster ==
  \A w \in FWorkers :
    becameMaster[w] = "won" =>
      /\ ~workerRunning[w]
      /\ ~masterHealthTimer[w]
      /\ masterFailureCount[w] = 0
      /\ mode[w] = "master"
      /\ coordinationHost = CoordId(w)

(***************************************************************************)
(* C5: when the candidate map has a unique maximum under (workspaceScore   *)
(* descending, uptime descending, resourceUsage ascending, instanceId      *)
(* ascending), the election returns that candidate's instanceId.           *)
(***************************************************************************)
Beats(a, b) ==
  \/ a.workspaceScore > b.workspaceScore
  \/ /\ a.workspaceScore = b.workspaceScore
     /\ \/ a.uptime > b.uptime
        \/ /\ a.uptime = b.uptime
           /\ \/ a.resourceUsage < b.resourceUsage
              \/ /\ a.resourceUsage = b.resourceUsage
                 /\ a.instanceId < b.instanceId

IsUniqueMaximum(i) ==
  \A j \in 1..Len(candidates) :
    j # i => Beats(candidates[i].value, candidates[j].value)

WinnerIsUniqueMaximum ==
  elected # 0 =>
    \A i \in 1..Len(candidates) :
      IsUniqueMaximum(i) => elected = candidates[i].value.instanceId

\* The maximum is the last of three candidates and is decided by uptime
\* against one rival and by resource usage against the other.
WinnerDecidedByTieBreaks ==
  /\ elected # 0
  /\ Len(candidates) = 3
  /\ IsUniqueMaximum(3)
  /\ elected = candidates[3].value.instanceId
  /\ candidates[1].value.workspaceScore = candidates[3].value.workspaceScore
  /\ candidates[1].value.uptime < candidates[3].value.uptime
  /\ candidates[2].value.workspaceScore = candidates[3].value.workspaceScore
  /\ candidates[2].value.uptime = candidates[3].value.uptime
  /\ candidates[2].value.resourceUsage > candidates[3].value.resourceUsage
  /\ candidates[3].value.instanceId > candidates[1].value.instanceId

(***************************************************************************)
(* C6: an election produces a winner, and sends MASTER_ELECTED, only if    *)
(* the candidate responses it received number at least the quorum          *)
(* (quorumSize when non-zero, else ceil(totalWorkers/2)).                  *)
(***************************************************************************)
Responses(r) ==
  Cardinality({i \in 1..Len(run[r].replies) : run[r].replies[i].state = "ok"})

RequiredQuorum(r) ==
  IF quorumSize # 0 THEN quorumSize ELSE Ceil2(Len(run[r].workers))

WinnerOnlyWithQuorum ==
  /\ \A r \in RunIds :
       run[r].pc \in {"broadcasting", "returned"} =>
         Responses(r) >= RequiredQuorum(r)
  /\ \A m \in sent : Responses(m.run) >= RequiredQuorum(m.run)

(***************************************************************************)
(* C7: an election that ends on the election timeout fails only when the   *)
(* responses that arrived before the timeout do not meet the quorum.       *)
(***************************************************************************)
TimeoutFailsOnlyWithoutQuorum ==
  \A r \in RunIds :
    (run[r].pc = "threw" /\ run[r].error = "timeout") =>
      Responses(r) < RequiredQuorum(r)

(***************************************************************************)
(* C8: at most one election run of a process is active at a time.          *)
(***************************************************************************)
AtMostOneActiveRun ==
  Cardinality({r \in RunIds : run[r].pc \in {"collecting", "broadcasting"}}) <= 1

(***************************************************************************)
(* C9: registering an unregistered instanceId and deregistering it right   *)
(* after leaves registeredWorkers and workspaceRouting as they were.       *)
(***************************************************************************)
RegisterDeregisterRestores ==
  roundTrip.phase = "done" =>
    /\ registeredWorkers = roundTrip.workers
    /\ workspaceRouting = roundTrip.routing

(***************************************************************************)
(* C10 (invariant R2): lastSeen of a worker record never decreases while   *)
(* the instanceId stays registered.                                        *)
(***************************************************************************)
LastSeenNeverDecreases ==
  [][\A id \in (DOMAIN registeredWorkers) \cap (DOMAIN registeredWorkers') :
       registeredWorkers'[id].lastSeen >= registeredWorkers[id].lastSeen]_vars

(***************************************************************************)
(* C11: a registration request that is malformed or lacks a required field *)
(* is answered with an error, and registeredWorkers and workspaceRouting   *)
(* stay as they are.                                                       *)
(***************************************************************************)
IsComplete(body) ==
  /\ body.json = "object"
  /\ body.instanceId # Undefined
  /\ body.workspacePath # UndefinedPath
  /\ body.rest = "present"

IncompleteRegistrationRejected ==
  [][\A body \in RegistrationBodies :
       (~IsComplete(body) /\ PostRegister(body)) =>
         /\ lastOp'.success = FALSE
         /\ registeredWorkers' = registeredWorkers
         /\ workspaceRouting' = workspaceRouting]_vars

(***************************************************************************)
(* C12: a worker record leaves the registry only through a deregister of   *)
(* its id or through the reaper, and a record changes only through a       *)
(* registration or a heartbeat of its own id: the registration or          *)
(* heartbeat of another id, a tool call and a remote tool call that fails  *)
(* on every attempt leave it as it is.                                     *)
(***************************************************************************)
Removed(id) == id \in DOMAIN registeredWorkers /\ id \notin DOMAIN registeredWorkers'

Changed(id) ==
  /\ id \in DOMAIN registeredWorkers
  /\ id \in DOMAIN registeredWorkers'
  /\ registeredWorkers'[id] # registeredWorkers[id]

RegistrationOf(id) ==
  \E p \in Paths : registerWorker([instanceId |-> id, workspacePath |-> p])

HeartbeatOf(id) ==
  \E st \in Statuses, ts \in Timestamps :
    handleHeartbeat(id, [status |-> st, timestamp |-> ts])

RecordsOnlyTouchedByOwnRequests ==
  [][\A id \in InstanceIds :
       /\ Removed(id) => (deregisterWorker(id) \/ checkWorkerHeartbeats)
       /\ Changed(id) => (RegistrationOf(id) \/ HeartbeatOf(id))]_vars

\* The statement with the heartbeat taken at its word: no heartbeat changes
\* any record, its own included.
RecordsNeverChangedByHeartbeat ==
  [][\A id \in InstanceIds :
       /\ Removed(id) => (deregisterWorker(id) \/ checkWorkerHeartbeats)
       /\ Changed(id) => RegistrationOf(id)]_vars

\* A routed call has failed on every attempt, its target is still registered,
\* and a heartbeat has been served since another worker was registered.
FailedCallLeftTargetRegistered ==
  /\ lastCall.target \in DOMAIN registeredWorkers
  /\ Len(lastCall.attempts) = maxRetries + 1
  /\ ~Resolved(lastCall.attempts)
  /\ lastOp.op = "heartbeat"
  /\ lastOp.success
  /\ Cardinality(DOMAIN registeredWorkers) = 2

(***************************************************************************)
(* C13: a reaper tick removes exactly the records whose lastSeen is more   *)
(* than three heartbeat intervals old, and in the same step every routing  *)
(* entry that points at a removed record.                                  *)
(***************************************************************************)
Stale(id) == now - registeredWorkers[id].lastSeen > 3 * heartbeatInterval

ReaperRemovesExactlyStale ==
  [][checkWorkerHeartbeats =>
       /\ DOMAIN registeredWorkers' = {id \in DOMAIN registeredWorkers : ~Stale(id)}
       /\ \A id \in DOMAIN registeredWorkers' :
            registeredWorkers'[id] = registeredWorkers[id]
       /\ DOMAIN workspaceRouting' =
            {p \in DOMAIN workspaceRouting :
               ~(workspaceRouting[p] \in DOMAIN registeredWorkers
                 /\ Stale(workspaceRouting[p]))}
       /\ \A p \in DOMAIN workspaceRouting' :
            workspaceRouting'[p] = workspaceRouting[p]]_vars

\* The reaper has just run four intervals after the start and left one of
\* two workspaces: the worker seen two intervals ago stays, with its route.
ReaperKeptFreshWorker ==
  /\ lastOp.op = "reap"
  /\ now = 2 * ClockStep
  /\ Cardinality(DOMAIN registeredWorkers) = 1
  /\ \A id \in DOMAIN registeredWorkers :
       /\ registeredWorkers[id].lastSeen = ClockStep
       /\ DOMAIN workspaceRouting = {registeredWorkers[id].workspacePath}

(***************************************************************************)
(* C14: a registered worker that stops sending heartbeats while the master *)
(* keeps running is eventually gone from registeredWorkers and from the    *)
(* values of workspaceRouting.                                             *)
(***************************************************************************)
Gone(id) ==
  /\ id \notin DOMAIN registeredWorkers
  /\ \A p \in DOMAIN workspaceRouting : workspaceRouting[p] # id

SilentWorkerIsReaped ==
  \A id \in InstanceIds : (~heartbeatTimer[id]) ~> Gone(id)

\* The reaper has just removed a killed worker; the other one still runs.
KilledWorkerReaped ==
  /\ lastOp.op = "reap"
  /\ \E id \in InstanceIds :
       /\ ~heartbeatTimer[id]
       /\ Gone(id)
       /\ \E other \in InstanceIds :
            heartbeatTimer[other] /\ other \in DOMAIN registeredWorkers

(***************************************************************************)
(* C15: a running worker whose record the master no longer holds is told   *)
(* to re-register by its next heartbeat and registers again under the same *)
(* instanceId, so that the registry eventually holds that id again.        *)
(***************************************************************************)
UnknownWorkerReregisters ==
  \A id \in InstanceIds :
    (heartbeatTimer[id] /\ id \notin DOMAIN registeredWorkers)
      ~> (id \in DOMAIN registeredWorkers \/ ~heartbeatTimer[id])

\* A running worker has just registered again, after the start.
WorkerRegisteredAgain ==
  /\ lastOp.op = "register"
  /\ heartbeatTimer[lastOp.id]
  /\ lastOp.id \in DOMAIN registeredWorkers
  /\ registeredWorkers[lastOp.id].lastSeen > 0
  /\ registeredWorkers[lastOp.id].workspacePath = WorkerPath(lastOp.id)

(***************************************************************************)
(* C16: a workspace-specific call whose uri lies inside the workspace of a *)
(* worker is executed on that worker exactly when the worker is registered *)
(* and answers; in every other case it is executed on the master.          *)
(***************************************************************************)
CallStep == toolCallHistory' # toolCallHistory

ByUri(call) ==
  /\ call.tool \in workspace_specific
  /\ call.params.uri # NoUri
  /\ call.params.workspace = NoWorkspace

\* The file of the uri is the workspace folder or lies below it.
LiesInside(uri, workspacePath) ==
  LET file == FilePath(uri)
      folder == Chars(workspacePath)
  IN /\ startsWith(file, folder)
     /\ Len(file) > Len(folder) => file[Len(folder) + 1] = "/"

Owners(uri) ==
  {id \in DOMAIN registeredWorkers :
     LiesInside(uri, registeredWorkers[id].workspacePath)}

\* The uri lies inside one of the workspaces the workers have.
InAWorkspace(uri) == \E p \in Paths : LiesInside(uri, p)

RoutedToOwnerOrLocal ==
  [][(CallStep /\ ByUri(lastCall') /\ InAWorkspace(lastCall'.params.uri)) =>
       /\ lastCall'.by # MasterProcess => lastCall'.by \in Owners(lastCall'.params.uri)
       /\ \A id \in Owners(lastCall'.params.uri) :
            (Owners(lastCall'.params.uri) = {id}) =>
              (lastCall'.by = id <=>
                 (lastCall'.target = id /\ Resolved(lastCall'.attempts)))]_vars

(***************************************************************************)
(* C17: when the workspacePath of more than one registered worker is a     *)
(* prefix of the uri, the router selects the worker with the longest       *)
(* matching workspacePath, whatever the order of registration.             *)
(***************************************************************************)
Matching(uri) ==
  {id \in DOMAIN registeredWorkers :
     startsWith(FilePath(uri), Chars(registeredWorkers[id].workspacePath))}

LongestPrefixSelected ==
  [][(CallStep /\ ByUri(lastCall') /\ Cardinality(Matching(lastCall'.params.uri)) > 1) =>
       /\ lastCall'.target \in Matching(lastCall'.params.uri)
       /\ \A id \in Matching(lastCall'.params.uri) :
            Len(Chars(registeredWorkers[id].workspacePath))
              <= Len(Chars(registeredWorkers[lastCall'.target].workspacePath))]_vars

(***************************************************************************)
(* C18: when the worker chosen for a workspace-specific call fails on      *)
(* every attempt, the master executes the tool locally and the caller gets *)
(* the local outcome, not the remote error.                                *)
(***************************************************************************)
AllAttemptsFailed(call) ==
  /\ call.target # NoTarget
  /\ Len(call.attempts) = maxRetries + 1
  /\ ~Resolved(call.attempts)

LocalOutcomeAfterRemoteFailure ==
  AllAttemptsFailed(lastCall) =>
    /\ lastCall.by = MasterProcess
    /\ lastCall.local \in {"ok", "error"}
    /\ lastCall.kind = (IF lastCall.local = "ok" THEN "result" ELSE "error")

\* The target could not be reached on any of the four attempts and the
\* caller got the result of the local execution.
LocalResultAfterUnreachableWorker ==
  /\ AllAttemptsFailed(lastCall)
  /\ \A i \in 1..Len(lastCall.attempts) : lastCall.attempts[i] = "unreachable"
  /\ lastCall.kind = "result"
  /\ lastCall.by = MasterProcess

(***************************************************************************)
(* C19: the ToolCallLog appended for a call records in routedTo the        *)
(* instance that executed the call, the master itself after a fallback to  *)
(* local execution.                                                        *)
(***************************************************************************)
RoutedToRecordsExecutor ==
  Len(toolCallHistory) > 0 =>
    toolCallHistory[Len(toolCallHistory)].routedTo = lastCall.by

(***************************************************************************)
(* C20: when the worker answers a routed call with a tool-specific error   *)
(* (success = false), the caller gets that error: the call is not tried    *)
(* again and no local execution replaces the error.                        *)
(***************************************************************************)
ToolErrorReturnedUnchanged ==
  (lastCall.target # NoTarget /\ lastCall.attempts[1] = "toolError") =>
    /\ Len(lastCall.attempts) = 1
    /\ lastCall.local = "none"
    /\ lastCall.kind = "error"
    /\ lastCall.by = lastCall.target

(***************************************************************************)
(* C21: an aggregated call is sent to every worker registered when it      *)
(* starts and to the local executor; it returns a merged result exactly    *)
(* when at least one of these branches succeeds and raises an error when   *)
(* all of them fail.                                                       *)
(***************************************************************************)
AggregateStep == lastAggregate' # lastAggregate

BranchSucceeded(attempts) == \E k \in 1..Len(attempts) : attempts[k] = "ok"

AggregateSucceedsIffABranchDoes ==
  [][AggregateStep =>
       LET call == lastAggregate'
           sentTo == {call.workers[i] : i \in 1..Len(call.workers)}
       IN /\ sentTo = DOMAIN registeredWorkers
          /\ Len(call.workers) = Cardinality(sentTo)
          /\ Len(call.branches) = Len(call.workers)
          /\ call.local \in {"ok", "error"}
          /\ call.kind \in {"result", "error"}
          /\ call.kind = "result" <=>
               \/ \E i \in 1..Len(call.branches) : BranchSucceeded(call.branches[i])
               \/ call.local = "ok"]_vars

\* Two workers were asked, one failed on all four attempts, the local
\* execution failed too, and the call returned the other worker's result.
AggregateSurvivedFailedBranches ==
  /\ Len(lastAggregate.workers) = 2
  /\ \E i \in 1..2 :
       /\ Len(lastAggregate.branches[i]) = maxRetries + 1
       /\ ~BranchSucceeded(lastAggregate.branches[i])
  /\ \E i \in 1..2 : BranchSucceeded(lastAggregate.branches[i])
  /\ lastAggregate.local = "error"
  /\ lastAggregate.kind = "result"

(***************************************************************************)
(* C22: when two instances are in MASTER mode at the same time, the one    *)
(* with the greater instanceId eventually leaves MASTER mode and registers *)
(* as a worker, and the one with the smaller instanceId stays master.      *)
(***************************************************************************)
BothMasters(hi, lo) ==
  /\ hi # lo
  /\ proc[hi].mode = "master"
  /\ proc[lo].mode = "master"
  /\ proc[hi].instanceId > proc[lo].instanceId

SteppedDown(hi, lo) ==
  /\ proc[hi].mode = "worker"
  /\ proc[hi].reg = "registered"
  /\ proc[lo].mode = "master"

SplitBrainIsResolved ==
  \A hi \in Procs, lo \in Procs : BothMasters(hi, lo) ~> SteppedDown(hi, lo)

(***************************************************************************)
(* C23: a worker process uses one instanceId, the one generated at process *)
(* start, in everything it sends: the id of its registration request and   *)
(* heartbeats is the id it reports on /health and in elections.            *)
(***************************************************************************)
OneInstanceIdPerWorker ==
  \A p \in Procs :
    proc[p].infoId # NoId => JoinRequest(p).instanceId = proc[p].instanceId

(***************************************************************************)
(* C24: a host started while a healthy master started through              *)
(* startMcpServer listens on the master port detects WORKER, binds the     *)
(* first free port of the worker range, and once its registration request  *)
(* has been answered the master's registry lists exactly the workers that  *)
(* joined, each with its port.                                             *)
(***************************************************************************)
Joined(p) ==
  /\ proc[p].config = [enabled |-> TRUE, mode |-> "auto"]
  /\ proc[p].probe = "healthy"
  /\ proc[p].pc \in {"started", "listening"}

JoinedWorkerIsListed ==
  \A p \in Procs :
    Joined(p) =>
      /\ proc[p].detected = "worker"
      /\ proc[p].localPort \in workerPortRange[1]..workerPortRange[2]
      /\ DOMAIN registeredWorkers = {proc[q].infoId : q \in {r \in Procs : Joined(r)}}
      /\ registeredWorkers[proc[p].infoId].port = proc[p].localPort

(***************************************************************************)
(* C30: detectMode answers STANDALONE whenever coordination is disabled,   *)
(* a forced mode included; else the forced mode when one is set; else      *)
(* WORKER on a HEALTHY probe and MASTER on an UNREACHABLE one.             *)
(***************************************************************************)
DetectedModeFollowsOrder ==
  \A p \in Procs :
    proc[p].pc # "off" =>
      IF ~proc[p].config.enabled THEN proc[p].detected = "standalone"
      ELSE IF proc[p].config.mode # "auto" THEN proc[p].detected = proc[p].config.mode
      ELSE /\ proc[p].probe = "healthy" => proc[p].detected = "worker"
           /\ proc[p].probe = "unreachable" => proc[p].detected = "master"

(***************************************************************************)
(* C25: no error raised in a background activity of a worker (timers,      *)
(* registration retry, election, the wait for a new master started by a    *)
(* MASTER_ELECTED message) escapes unhandled, under any interleaving with  *)
(* stop() and role transitions.                                            *)
(***************************************************************************)
NoUnhandledRejection == unhandled = {}

(***************************************************************************)
(* C26: toolCallHistory never holds more than 100 entries; every completed *)
(* handleToolCall, resolved or thrown, appends exactly one entry at the    *)
(* end, and when that makes 101 entries the oldest one is removed and the  *)
(* others keep their order.                                                *)
(***************************************************************************)
CompletionStep == \E c \in CallSlots : running[c].pc = "awaiting" /\ running'[c].pc = "idle"

Kept(old, new, from) ==
  \A i \in 1..(Len(new) - 1) : new[i] = old[i + from]

HistoryIsBounded ==
  /\ [](Len(toolCallHistory) <= historyLimit)
  /\ [][CompletionStep =>
         /\ \E c \in CallSlots :
              /\ running[c].pc = "awaiting" /\ running'[c].pc = "idle"
              /\ toolCallHistory'[Len(toolCallHistory')].timestamp = running[c].startTime
              /\ toolCallHistory'[Len(toolCallHistory')].tool = running[c].tool
         /\ IF Len(toolCallHistory) = historyLimit
            THEN /\ Len(toolCallHistory') = historyLimit
                 /\ Kept(toolCallHistory, toolCallHistory', 1)
            ELSE /\ Len(toolCallHistory') = Len(toolCallHistory) + 1
                 /\ Kept(toolCallHistory, toolCallHistory', 0)]_vars

\* A full history has lost its two oldest entries to two later calls, one
\* resolved and one thrown.
OldestWereDropped ==
  /\ Len(toolCallHistory) = historyLimit
  /\ callsStarted = MaxStarted
  /\ \A c \in CallSlots : running[c].pc = "idle"
  /\ toolCallHistory[1] = PastHistory(historyLimit - 1)[3]
  /\ toolCallHistory[historyLimit].error # toolCallHistory[historyLimit - 1].error

(***************************************************************************)
(* C27: with tool calls running concurrently, the entries of               *)
(* toolCallHistory are in non-decreasing order of timestamp, the start     *)
(* time the master observed for the call.                                  *)
(***************************************************************************)
HistoryOrderedByStartTime ==
  \A i \in 1..(Len(toolCallHistory) - 1) :
    toolCallHistory[i].timestamp <= toolCallHistory[i + 1].timestamp

(***************************************************************************)
(* C28: RemoteToolExecutor.executeTool makes at most 4 HTTP attempts for   *)
(* one call; a successful attempt ends the call at once; before retry k    *)
(* (k = 1, 2, 3) it waits 1 s x 2^(k-1); after the fourth failed attempt   *)
(* it raises the error to its caller.                                      *)
(***************************************************************************)
FailedAttempts == {i \in 1..Len(exec.outcomes) : exec.outcomes[i] # "ok"}

FourAttemptsWithBackoff ==
  /\ Len(exec.outcomes) <= 4
  /\ \A i \in 1..(Len(exec.outcomes) - 1) : exec.outcomes[i] # "ok"
  /\ exec.pc = "resolved" <=> (exec.outcomes # <<>> /\ FailedAttempts # 1..Len(exec.outcomes))
  /\ exec.pc = "rejected" <=> FailedAttempts = 1..4
  /\ exec.pc = "rejected" => exec.error = exec.outcomes[4]
  /\ exec.pc = "request" => Len(exec.slept) = Len(exec.outcomes)
  /\ exec.pc \in {"resolved", "rejected"} => Len(exec.slept) = Len(exec.outcomes) - 1
  /\ \A k \in 1..Len(exec.slept) :
       /\ k \in 1..3
       /\ exec.slept[k] = 1000 * 2 ^ (k - 1)

\* Three retries after waits of 1 s, 2 s and 4 s, and the fourth attempt
\* failed as well.
FourthAttemptFailed ==
  /\ exec.pc = "rejected"
  /\ exec.slept = <<1000, 2000, 4000>>
  /\ exec.error = "timeout"

(***************************************************************************)
(* C29: MasterCoordinator.stop() stops the heartbeat reaper, sends         *)
(* MASTER_SHUTDOWN to every worker registered when it is called, and the   *)
(* coordination server is closed only after every notification has         *)
(* completed or failed or the 5 s deadline has passed; stop() terminates   *)
(* even when no worker ever answers.                                       *)
(***************************************************************************)
AllNotificationsSettled ==
  \A id \in DOMAIN shutdown.notified : shutdown.notified[id] \in {"ok", "failed"}

StopIsOrderedAndTerminates ==
  /\ [](shutdown.pc # "running" => ~shutdown.heartbeatChecker)
  /\ [][~shutdown.heartbeatChecker =>
           DOMAIN registeredWorkers \subseteq DOMAIN registeredWorkers']_vars
  /\ [][(shutdown.pc = "running" /\ shutdown'.pc # "running") =>
           \A id \in DOMAIN registeredWorkers :
             id \in DOMAIN shutdown'.notified /\ shutdown'.notified[id] = "sent"]_vars
  /\ [][(shutdown.server = "open" /\ shutdown'.server = "closed") =>
           (AllNotificationsSettled \/ shutdown.deadline)]_vars
  /\ (shutdown.pc = "broadcasting") ~> (shutdown.pc = "stopped")
  /\ (shutdown.pc = "stopped") ~> (shutdown.server = "closed")

\* stop() has returned and the server is closed although a notified worker
\* never answered.
StoppedWithoutAnAnswer ==
  /\ shutdown.pc = "stopped"
  /\ shutdown.server = "closed"
  /\ \E id \in DOMAIN shutdown.notified : shutdown.notified[id] = "sent"

(***************************************************************************)
(* C31: whenever detectMode returns MASTER after its first probe found     *)
(* the master DEGRADED, the detector has waited the random backoff and     *)
(* probed the master again, and that last probe returned DEGRADED or       *)
(* UNREACHABLE.                                                            *)
(***************************************************************************)
MasterOnlyAfterBackoff ==
  (detector.pc = "done" /\ detector.first = "degraded" /\ detector.result = "master") =>
    /\ detector.waited
    /\ detector.final \in {"degraded", "unreachable"}

(***************************************************************************)
(* C32: a worker's master-failure counter is set to 0 by every HEALTHY     *)
(* probe and incremented by exactly 1 by every non-HEALTHY probe, and the  *)
(* worker starts an election only in a state where the counter is at      *)
(* least 3, no election is in progress in that process and the worker is   *)
(* not already becoming master.                                            *)
(***************************************************************************)
ProbeCounted(w) ==
  /\ masterHealthTimer[w]
  /\ \A v \in FWorkers \ {w} : masterFailureCount'[v] = masterFailureCount[v]
  /\ masterFailureCount'[w] =
       IF checkMasterHealth = "healthy" THEN 0 ELSE masterFailureCount[w] + 1

ElectionStarts(w) ==
  \E a \in AttemptIds :
    attempt[w][a].pc # "discovering" /\ attempt'[w][a].pc = "discovering"

ShutdownLeadsToElection ==
  [][\A w \in FWorkers :
       (/\ shutdownTimer[w] /\ ~shutdownTimer'[w]
        /\ ~electing[w] /\ ~becomingMaster[w]
        /\ \A a \in AttemptIds : attempt[w][a].pc # "discovering"
        /\ LowestIdle(attempt[w]) # 0)
       => ElectionStarts(w)]_vars

(***************************************************************************)
(* C33: if the master stays healthy but every registration attempt of a    *)
(* worker fails, the worker makes exactly 6 attempts (the initial one and  *)
(* 5 retries, retry n delayed by 2^n seconds), then sets its mode to       *)
(* STANDALONE, stops its heartbeat and master-health timers and keeps its  *)
(* local tool endpoint listening; it makes no further registration         *)
(* attempt afterwards.                                                     *)
(***************************************************************************)
SixAttemptsThenStandalone ==
  ~joiner.registered =>
    /\ joiner.attempts <= 6
    /\ joiner.registrationRetries > 0 =>
         joiner.delay = 2 ^ joiner.registrationRetries * 1000
    /\ joiner.mode = "standalone" =>
         /\ joiner.attempts = 6
         /\ ~joiner.heartbeatTimer
         /\ ~joiner.masterHealthTimer
         /\ joiner.localServer

(***************************************************************************)
(* C34: a process never executes two role transitions at once: whatever    *)
(* the interleaving of an election win, the election-failure fallback,     *)
(* the timeout of the wait for a new master, MASTER_ELECTED messages and   *)
(* the registration-exhaustion fallback to STANDALONE, a transition        *)
(* requested while another one is in progress has no effect, and           *)
(* becomeMaster runs its body at most once.                                *)
(***************************************************************************)
TransitionsNeverConcurrent ==
  /\ ~role.overlapped
  /\ role.bodies <= 1

(***************************************************************************)
(* C35: when several workers each run an election over the same set of     *)
(* live workers after a master failure, all of them determine the same     *)
(* winner instanceId.                                                      *)
(***************************************************************************)
AllDetermineTheSameWinner ==
  \A w \in PollWorkers, v \in PollWorkers :
    poll.run[w].pc = "returned" /\ poll.run[v].pc = "returned" =>
      poll.run[w].winner = poll.run[v].winner

(***************************************************************************)
(* C36: the worker list returned by discoverOtherWorkers never contains    *)
(* the calling worker itself, whether the workers were obtained from the   *)
(* master's registry listing or from the port scan.                        *)
(***************************************************************************)
DiscoveredListExcludesCaller ==
  \A w \in PollWorkers :
    \A i \in 1..Len(poll.run[w].known) :
      PollWorkerOfKey(poll.run[w].known[i]) # w

(***************************************************************************)
(* C37: after abortElection is called while an election is collecting      *)
(* candidates, the candidate set stays empty and the election flag stays   *)
(* false until the next startElection, and the aborted run neither         *)
(* broadcasts MASTER_ELECTED nor returns a winner.  A run that is          *)
(* collecting while the flag is false is an aborted one: nothing else      *)
(* resets the flag of a run inside its try block.                          *)
(***************************************************************************)
AbortedRun(r) == run[r].pc = "collecting" /\ ~electionInProgress

AbortedRunStaysSilent ==
  [][\A r \in RunIds :
       AbortedRun(r) /\ (\A q \in RunIds : run[q].pc = "new" => run'[q].pc = "new") =>
         /\ candidates' = <<>>
         /\ ~electionInProgress'
         /\ sent' = sent
         /\ run'[r].pc \notin {"broadcasting", "returned"}]_vars

(***************************************************************************)
(* C39: two workers that start concurrently on the same host never obtain  *)
(* the same port from findAvailablePort: each ends up listening on a       *)
(* distinct port of the worker range and both complete start().            *)
(***************************************************************************)
ConcurrentStartersGetDistinctPorts ==
  \A w \in Starters, v \in Starters :
    w # v /\ starter[w].pc \in {"found", "listening", "failed"}
          /\ starter[v].pc \in {"found", "listening", "failed"} =>
      /\ starter[w].pc # "failed"
      /\ starter[w].port \in ScanRange
      /\ starter[w].port # starter[v].port

(***************************************************************************)
(* C40: while a worker is waiting for a newly elected master to come up    *)
(* (waitForNewMaster, at most 30 s), it starts no further election and at  *)
(* most one such wait is active in the worker.                             *)
(***************************************************************************)
Waits(w) == {a \in AttemptIds : attempt[w][a].pc = "waiting"}

WaitIsExclusive ==
  /\ [](\A w \in FWorkers : Cardinality(Waits(w)) <= 1)
  /\ [][\A w \in FWorkers :
         Waits(w) # {} =>
           \A a \in AttemptIds :
             attempt'[w][a].pc = "discovering" => attempt[w][a].pc = "discovering"]_vars

====
